---- MODULE Spec2Model ----
(***************************************************************************)
(* Glisk backend: token lifecycle engine.                                  *)
(*                                                                         *)
(* The relational store (tokens_s0, mint_events, reveal_transactions,      *)
(* authors) is the shared state; every committed transaction is one step.  *)
(* Stage workers are modelled per process replica, one task per claimed    *)
(* token, with the code's commit points as step boundaries.                *)
(***************************************************************************)
EXTENDS Integers, Sequences, FiniteSets, TLC

(***************************************************************************)
(* Bounds of the model                                                     *)
(***************************************************************************)
MaxTokenId == 3          \* token ids that can be minted: 1..MaxTokenId
PipelineTokens == 2      \* rows present when the pipeline specification starts
NumProcs == 2            \* process replicas running each stage worker
MaxAttempts == 1         \* cap on generation_attempts (unbounded in the code)
MaxTx == 2               \* cap on reveal transactions submitted by the keeper
MaxDeliveries == 2       \* webhook requests the sender makes
BatchRevealMaxTokens == 2 \* scaled settings.batch_reveal_max_tokens (default 50)

TokenIds == 1..MaxTokenId
Procs == 1..NumProcs

(***************************************************************************)
(* Program constants                                                       *)
(***************************************************************************)
WorkerBatchSize == 10    \* settings.worker_batch_size

Null == "null"

\* TokenStatus enum
DETECTED == "detected"
GENERATING == "generating"
UPLOADING == "uploading"
READY == "ready"
REVEALED == "revealed"
FAILED == "failed"
TokenStatus == {DETECTED, GENERATING, UPLOADING, READY, REVEALED, FAILED}

NoUrl == <<>>
NoCid == <<>>
NoTx == <<>>

\* An error string, represented by its number of characters: the code only
\* prefixes and slices these strings
Message(len) == [len |-> len]
\* generation_error of a row that recorded no error (None)
NoError == [none |-> TRUE]
\* s[:n]
Slice(msg, n) == [msg EXCEPT !.len = IF @ > n THEN n ELSE @]
\* f"<prefix>{msg}", the prefix having plen characters
Prefixed(plen, msg) == Message(plen + msg.len)

ShortMessage == 40       \* length of a short exception message
LongMessage == 1500      \* length of a long exception message (an API response body)
\* str(e) of an exception raised by an external call
ErrorLens == {ShortMessage, LongMessage}
GenerationErrorMax == 1000   \* error_message[:1000]

\* Absence of a row in tokens_s0 for a token id
NoRow == [status |-> "norow", author |-> Null, image_url |-> NoUrl,
          image_cid |-> NoCid, metadata_cid |-> NoCid, attempts |-> 0,
          error |-> NoError, tx |-> NoTx, created |-> 0]

\* Token(token_id, author_id, status): a freshly constructed row
Token(author, status, created) ==
    [status |-> status, author |-> author, image_url |-> NoUrl,
     image_cid |-> NoCid, metadata_cid |-> NoCid, attempts |-> 0,
     error |-> NoError, tx |-> NoTx, created |-> created]

(***************************************************************************)
(* Authors.  The pipeline never writes this table; the wallet is the key.  *)
(***************************************************************************)
WalletA == "wA"          \* an author with a prompt
WalletB == "wB"          \* an author whose prompt_text is unset
WalletX == "wX"          \* a wallet with no Author row
\* settings.glisk_default_author_wallet, the configured wallet of the default
\* author.  The workers and handlers read it from the settings object they
\* are given; Settings (core/config.py) declares no field of this name, so
\* the value is taken as configured.
DefaultWallet == "wD"
Wallets == {WalletA, WalletB, WalletX, DefaultWallet}

NoAuthor == [present |-> FALSE, prompt |-> Null]
Author(prompt) == [present |-> TRUE, prompt |-> prompt]

VARIABLES
    authors,      \* authors table: wallet -> Author row or NoAuthor
    tokens,       \* tokens_s0 table: token_id -> row or NoRow
    mintEvents,   \* mint_events table: sequence of rows
    revealTxs,    \* reveal_transactions table: sequence of rows
    locks,        \* row locks held by open transactions: token_id -> owner
    clock,        \* source of created_at stamps
    imgPc,        \* image worker of each process: "boot" | "poll"
    imgTask,      \* image worker tasks: process -> token_id -> task record
    upTask,       \* upload worker tasks: process -> token_id -> "none" | "run"
    revPc,        \* reveal worker of each process
    revBatch,     \* reveal worker: tokens locked by the open session
    lastCall,     \* arguments of the latest revealTokens call
    txCount,      \* reveal transactions submitted so far
    chain,        \* contract state: nextTokenId, BatchMinted logs, revealed ids
    web,          \* webhook requests: request -> handler state
    gap,          \* gap repair run (recover_missing_tokens)
    replay,       \* outcome of the latest log replay
    sup           \* lifespan: shutdown event, worker tasks, restart tasks, time

storeVars == <<authors, tokens, mintEvents, revealTxs, locks, clock>>
tokenless == <<authors, mintEvents, revealTxs, locks, clock>>
imgVars == <<imgPc, imgTask>>
revVars == <<revPc, revBatch, lastCall, txCount>>
ingestVars == <<web, gap, replay>>
vars == <<authors, tokens, mintEvents, revealTxs, locks, clock, imgPc, imgTask,
          upTask, revPc, revBatch, lastCall, txCount, chain, web, gap, replay, sup>>

NoLock == <<"none", 0>>

(***************************************************************************)
(* TokenRepository                                                         *)
(***************************************************************************)
RECURSIVE SortByCreated(_)
\* ORDER BY created_at ASC over a set of token ids
SortByCreated(S) ==
    IF S = {} THEN <<>>
    ELSE LET m == CHOOSE t \in S : \A u \in S : tokens[t].created <= tokens[u].created
         IN <<m>> \o SortByCreated(S \ {m})

Take(s, n) == SubSeq(s, 1, IF Len(s) < n THEN Len(s) ELSE n)

SeqToSet(s) == {s[i] : i \in DOMAIN s}

\* SELECT ... WHERE status = st ORDER BY created_at LIMIT n FOR UPDATE SKIP LOCKED,
\* run by the transaction `owner`
SelectForUpdateSkipLocked(st, n, owner) ==
    Take(SortByCreated({t \in TokenIds : /\ tokens[t].status = st
                                         /\ locks[t] \in {NoLock, owner}}), n)

get_pending_for_generation(n, owner) == SelectForUpdateSkipLocked(DETECTED, n, owner)

get_pending_for_upload(n, owner) == SelectForUpdateSkipLocked(UPLOADING, n, owner)

\* fault variant: the query without its LIMIT
get_ready_for_reveal_unlimited(n, owner) ==
    SelectForUpdateSkipLocked(READY, MaxTokenId, owner)

get_ready_for_reveal(n, owner) == SelectForUpdateSkipLocked(READY, n, owner)

\* fault variant: the URL is stored, the status is not advanced
update_image_url_keep_status(row, url) == [row EXCEPT !.image_url = url]

\* each of the following is the row after the UPDATE the method flushes
update_image_url(row, url) == [row EXCEPT !.image_url = url, !.status = UPLOADING]

\* fault variant: the message is stored whole
mark_failed_untruncated(row, msg) == [row EXCEPT !.status = FAILED, !.error = msg]

mark_failed(row, msg) ==
    [row EXCEPT !.status = FAILED, !.error = Slice(msg, GenerationErrorMax)]

\* fault variant: the counter and the error are written, the status is not reset
increment_attempts_keep_status(row, msg) ==
    [row EXCEPT !.attempts = @ + 1, !.error = Slice(msg, GenerationErrorMax)]

increment_attempts(row, msg) ==
    [row EXCEPT !.attempts = @ + 1, !.status = DETECTED,
                !.error = Slice(msg, GenerationErrorMax)]

\* fault variant: the metadata cid is not stored
update_ipfs_cids_image_only(row, image_cid, metadata_cid) ==
    [row EXCEPT !.image_cid = image_cid, !.status = READY]

update_ipfs_cids(row, image_cid, metadata_cid) ==
    [row EXCEPT !.image_cid = image_cid, !.metadata_cid = metadata_cid, !.status = READY]

\* fault variant: the status is set, the transaction hash is not stored
mark_revealed_no_hash(row, tx_hash) == [row EXCEPT !.status = REVEALED]

\* `if tx_hash:` - the hash is stored only when one is given
mark_revealed(row, tx_hash) ==
    [row EXCEPT !.tx = IF tx_hash # NoTx THEN tx_hash ELSE @, !.status = REVEALED]

(***************************************************************************)
(* Image generation worker                                                 *)
(***************************************************************************)
NoTask == [st |-> "none", seen |-> Null]

\* fault variant: no fallback to the default author
ResolvePromptAuthorOnly(row) ==
    IF ~authors[row.author].present \/ authors[row.author].prompt = Null
    THEN "ValueError" ELSE authors[row.author].prompt

\* Steps 3-4 of process_single_token: the prompt the image call is made with,
\* or "ValueError" when no prompt can be resolved
ResolvePrompt(row) ==
    LET author == authors[row.author]
        default_author == authors[DefaultWallet]
    IN IF ~author.present \/ author.prompt = Null
       THEN IF ~default_author.present THEN "ValueError"
            ELSE IF default_author.prompt = Null THEN "ValueError"
            ELSE default_author.prompt
       ELSE author.prompt

\* fault variant: the reset also clears the attempt counter
recover_orphaned_tokens_clear_attempts(tbl) ==
    [t \in TokenIds |-> IF tbl[t].status = GENERATING
                        THEN [tbl[t] EXCEPT !.status = DETECTED, !.attempts = 0]
                        ELSE tbl[t]]

\* recover_orphaned_tokens: UPDATE tokens_s0 SET status='detected' WHERE status='generating'
recover_orphaned_tokens(tbl) ==
    [t \in TokenIds |-> IF tbl[t].status = GENERATING
                        THEN [tbl[t] EXCEPT !.status = DETECTED] ELSE tbl[t]]

\* run_image_generation_worker, startup: orphan reset, then the poll loop
run_image_generation_worker(p) ==
    /\ imgPc[p] = "boot"
    /\ \A t \in TokenIds : tokens[t].status = GENERATING => locks[t] = NoLock
    /\ tokens' = recover_orphaned_tokens(tokens)
    /\ imgPc' = [imgPc EXCEPT ![p] = "poll"]
    /\ UNCHANGED <<sup, tokenless, imgTask, upTask, revVars, chain, ingestVars>>

\* process_batch: claim under a lock session that is closed before processing
image_process_batch(p) ==
    /\ imgPc[p] = "poll"
    /\ \A t \in TokenIds : imgTask[p][t].st = "none"
    /\ LET claimed == SeqToSet(get_pending_for_generation(WorkerBatchSize, <<"img", p>>))
       IN /\ claimed # {}
          /\ imgTask' = [imgTask EXCEPT ![p] =
                 [t \in TokenIds |-> IF t \in claimed
                                     THEN [st |-> "fetch", seen |-> Null]
                                     ELSE NoTask]]
    /\ UNCHANGED <<sup, storeVars, imgPc, upTask, revVars, chain, ingestVars>>

\* process_single_token step 1: re-fetch the token in the task's own session
image_fetch_token(p, t) ==
    /\ imgTask[p][t].st = "fetch"
    /\ imgTask' = [imgTask EXCEPT ![p][t] = [st |-> "mark", seen |-> tokens[t].status]]
    /\ UNCHANGED <<sup, storeVars, imgPc, upTask, revVars, chain, ingestVars>>

\* process_single_token step 2: mark_generating() on the fetched object, commit
image_mark_generating(p, t) ==
    /\ imgTask[p][t].st = "mark"
    /\ IF imgTask[p][t].seen # DETECTED
       THEN \* InvalidStateTransition, raised outside the try block
            /\ imgTask' = [imgTask EXCEPT ![p][t] = NoTask]
            /\ UNCHANGED tokens
       ELSE /\ locks[t] = NoLock
            /\ tokens' = [tokens EXCEPT ![t].status = GENERATING]
            /\ imgTask' = [imgTask EXCEPT ![p][t] = [st |-> "generating", seen |-> GENERATING]]
    /\ UNCHANGED <<sup, tokenless, imgPc, upTask, revVars, chain, ingestVars>>

\* generate_image: the URL the image API returns for a prompt
generate_image(prompt) == <<"url", prompt>>

FALLBACK_CENSORED_PROMPT == "fallback"

PromptValidationPrefix == 26   \* len("Prompt validation failed: ")
FallbackFailedPrefix == 24     \* len("Fallback prompt failed: ")

ImageOutcomes == {"ok", "transient", "policy_ok", "policy_fail", "permanent"}

\* the outcomes of the image call, and an exception that is none of the
\* classified ones, such as a database error of the author query or a commit
HandlerOutcomes == ImageOutcomes \cup {"unexpected"}

\* fault variant: the first exception cancels the other tasks of the batch
gather_cancels_rest(tasks, t, idle) == [u \in DOMAIN tasks |-> idle]

\* asyncio.gather(*tasks, return_exceptions=True): a task that returns or
\* raises ends alone, the other tasks of the batch run on
gather_return_exceptions(tasks, t, idle) == [tasks EXCEPT ![t] = idle]

\* `except Exception`: session.rollback() and re-raise; the commit of step 2
\* stands, nothing else is written
unexpected_error(row) == row

\* process_single_token steps 3-8: resolve the prompt, call the image API,
\* commit the outcome
image_process_single_token(p, t, outcome) ==
    /\ imgTask[p][t].st = "generating"
    /\ locks[t] = NoLock
    /\ LET prompt == ResolvePrompt(tokens[t])
           row == tokens[t]
       IN IF outcome = "unexpected"
          THEN tokens' = [tokens EXCEPT ![t] = unexpected_error(row)]
          ELSE IF prompt = "ValueError"
          THEN tokens' = [tokens EXCEPT ![t] =
                    mark_failed(row, Prefixed(PromptValidationPrefix,
                                              Message(ShortMessage)))]
          ELSE CASE outcome = "ok" ->
                      tokens' = [tokens EXCEPT ![t] = update_image_url(row, generate_image(prompt))]
                 [] outcome = "transient" ->
                      /\ row.attempts < MaxAttempts
                      /\ \E n \in ErrorLens :
                            tokens' = [tokens EXCEPT ![t] =
                               increment_attempts(row, Message(n))]
                 [] outcome = "policy_ok" ->
                      /\ row.attempts < MaxAttempts
                      /\ tokens' = [tokens EXCEPT ![t] =
                            [update_image_url(row, generate_image(FALLBACK_CENSORED_PROMPT))
                                EXCEPT !.attempts = @ + 1]]
                 [] outcome = "policy_fail" ->
                      \E n \in ErrorLens :
                         tokens' = [tokens EXCEPT ![t] =
                            mark_failed(row, Prefixed(FallbackFailedPrefix,
                                                      Message(n)))]
                 [] outcome = "permanent" ->
                      \E n \in ErrorLens :
                         tokens' = [tokens EXCEPT ![t] =
                            mark_failed(row, Message(n))]
    /\ imgTask' = [imgTask EXCEPT ![p] = gather_return_exceptions(@, t, NoTask)]
    /\ UNCHANGED <<sup, tokenless, imgPc, upTask, revVars, chain, ingestVars>>

(***************************************************************************)
(* IPFS upload worker                                                      *)
(***************************************************************************)
\* process_batch: claim under a lock session that is closed before processing
ipfs_process_batch(p) ==
    /\ \A t \in TokenIds : upTask[p][t] = "none"
    /\ LET claimed == SeqToSet(get_pending_for_upload(WorkerBatchSize, <<"up", p>>))
       IN /\ claimed # {}
          /\ upTask' = [upTask EXCEPT ![p] =
                 [t \in TokenIds |-> IF t \in claimed THEN "run" ELSE "none"]]
    /\ UNCHANGED <<sup, storeVars, imgVars, revVars, chain, ingestVars>>

UploadOutcomes == {"ok", "transient", "permanent"}

UploadFailedPrefix == 20       \* len("IPFS upload failed: ")

\* the writes of the error handlers of process_single_token: the row keeps its
\* status (uploading), generation_attempts and generation_error are recorded
ipfs_record_error(row, msg) ==
    [row EXCEPT !.attempts = @ + 1, !.error = Slice(msg, GenerationErrorMax)]

\* process_single_token: fetch, upload image and metadata, commit the outcome
ipfs_process_single_token(p, t, outcome) ==
    /\ upTask[p][t] = "run"
    /\ locks[t] = NoLock
    /\ LET row == tokens[t]
       IN IF outcome = "unexpected"
          THEN \* `except Exception`: session.rollback() and re-raise
               tokens' = [tokens EXCEPT ![t] = unexpected_error(row)]
          ELSE IF row.image_url = NoUrl
          THEN \* ValueError: the token has no image_url
               /\ row.attempts < MaxAttempts
               /\ tokens' = [tokens EXCEPT ![t] =
                     ipfs_record_error(row, Prefixed(UploadFailedPrefix,
                                                     Message(ShortMessage)))]
          ELSE CASE outcome = "ok" ->
                      tokens' = [tokens EXCEPT ![t] =
                          update_ipfs_cids(row, <<"image", t>>, <<"meta", t>>)]
                 [] outcome = "transient" ->
                      /\ row.attempts < MaxAttempts
                      /\ \E n \in ErrorLens :
                            tokens' = [tokens EXCEPT ![t] =
                               ipfs_record_error(row, Message(n))]
                 [] outcome = "permanent" ->
                      /\ row.attempts < MaxAttempts
                      /\ \E n \in ErrorLens :
                            tokens' = [tokens EXCEPT ![t] =
                               ipfs_record_error(row,
                                  Prefixed(UploadFailedPrefix,
                                           Message(n)))]
    /\ upTask' = [upTask EXCEPT ![p] = gather_return_exceptions(@, t, "none")]
    /\ UNCHANGED <<sup, tokenless, imgVars, revVars, chain, ingestVars>>

(***************************************************************************)
(* Reveal worker                                                           *)
(***************************************************************************)
RevOwner(p) == <<"rev", p>>

NoCall == [token_ids |-> <<>>, metadata_uris |-> <<>>]

\* get_batch: slots the second query may fill
remaining_slots(token_count) == BatchRevealMaxTokens - token_count

\* the rows of `ids` locked by the session `owner`
LockRows(lk, ids, owner) ==
    [t \in TokenIds |-> IF t \in SeqToSet(ids) THEN owner ELSE lk[t]]

\* the session `owner` ends (commit or rollback): its row locks are released
ReleaseRows(lk, owner) ==
    [t \in TokenIds |-> IF lk[t] = owner THEN NoLock ELSE lk[t]]

\* get_batch, first query: lock up to batch_max_size ready tokens
get_batch_first_query(p) ==
    /\ revPc[p] = "idle"
    /\ LET batch == get_ready_for_reveal(BatchRevealMaxTokens, RevOwner(p))
       IN /\ batch # <<>>
          /\ revBatch' = [revBatch EXCEPT ![p] = batch]
          /\ locks' = LockRows(locks, batch, RevOwner(p))
          /\ revPc' = [revPc EXCEPT ![p] =
                 IF Len(batch) < BatchRevealMaxTokens THEN "wait" ELSE "batch"]
    /\ UNCHANGED <<sup, authors, tokens, mintEvents, revealTxs, clock, imgVars, upTask,
                   lastCall, txCount, chain, ingestVars>>

\* get_batch, after the accumulation window: second query, duplicates dropped
get_batch_second_query(p) ==
    /\ revPc[p] = "wait"
    /\ LET additional == get_ready_for_reveal(remaining_slots(Len(revBatch[p])),
                                              RevOwner(p))
           existing_ids == SeqToSet(revBatch[p])
           unique_additional == SelectSeq(additional, LAMBDA t : t \notin existing_ids)
       IN /\ revBatch' = [revBatch EXCEPT ![p] = @ \o unique_additional]
          /\ locks' = LockRows(locks, additional, RevOwner(p))
    /\ revPc' = [revPc EXCEPT ![p] = "batch"]
    /\ UNCHANGED <<sup, authors, tokens, mintEvents, revealTxs, clock, imgVars, upTask,
                   lastCall, txCount, chain, ingestVars>>

\* process_reveal_batch: the two argument lists of revealTokens
BatchTokenIds(batch) == batch
MetadataUris(batch) == [i \in DOMAIN batch |-> <<"ipfs://", tokens[batch[i]].metadata_cid>>]

RevealOutcomes == {"confirmed", "transient", "timeout", "revert"}

\* the keeper's transaction as the network holds it: "confirmed" and
\* "reverted" have a receipt, "pending" has none yet
SentTx(token_ids, status) == [token_ids |-> token_ids, status |-> status]

\* what the network holds for a transaction whose wait ended as `outcome`
SentStatus(outcome) ==
    CASE outcome = "confirmed" -> "confirmed"
      [] outcome = "timeout" -> "pending"
      [] outcome = "revert" -> "reverted"

\* fault variant: the receipt's status is not looked at
reveal_batch_raises_unless_mined(outcome) == outcome \in {"transient", "timeout"}

\* KeeperService.reveal_batch raises (GasEstimationError,
\* TransactionSubmissionError, TransactionTimeoutError, TransactionRevertError)
\* unless the receipt arrived with status 1
reveal_batch_raises(outcome) == outcome # "confirmed"

\* fault variant: the audit row lists the first token of the batch only
RevealTransactionOfFirst(token_ids, tx_hash, status) ==
    [token_ids |-> <<Head(token_ids)>>, tx_hash |-> tx_hash, status |-> status]

\* RevealTransaction(token_ids=[t.id for t in tokens], tx_hash=..., status=...)
RevealTransaction(token_ids, tx_hash, status) ==
    [token_ids |-> token_ids, tx_hash |-> tx_hash, status |-> status]

\* process_reveal_batch and the commit or rollback that ends the iteration
process_reveal_batch(p, outcome) ==
    /\ revPc[p] = "batch"
    /\ LET batch == revBatch[p]
           tx_hash == <<"tx", txCount + 1>>
       IN /\ lastCall' = [token_ids |-> BatchTokenIds(batch),
                          metadata_uris |-> MetadataUris(batch)]
          /\ IF outcome = "transient"
             THEN \* gas estimation or submission failed: nothing was sent
                  UNCHANGED <<txCount, chain>>
             ELSE /\ txCount < MaxTx
                  /\ txCount' = txCount + 1
                  /\ chain' = [chain EXCEPT
                        !.revealed = IF outcome = "confirmed"
                                     THEN @ \cup SeqToSet(batch) ELSE @,
                        !.txs = Append(@, SentTx(batch, SentStatus(outcome)))]
          /\ IF reveal_batch_raises(outcome)
             THEN \* except TransientError / PermanentError: session.rollback()
                  UNCHANGED <<revealTxs, tokens>>
             ELSE \* audit row, mark_revealed for each token, session.commit()
                  /\ revealTxs' = Append(revealTxs,
                        RevealTransaction(batch, tx_hash, "confirmed"))
                  /\ tokens' = [t \in TokenIds |->
                        IF t \in SeqToSet(batch) THEN mark_revealed(tokens[t], tx_hash)
                        ELSE tokens[t]]
    /\ locks' = ReleaseRows(locks, RevOwner(p))
    /\ revBatch' = [revBatch EXCEPT ![p] = <<>>]
    /\ revPc' = [revPc EXCEPT ![p] = "idle"]
    /\ UNCHANGED <<sup, authors, mintEvents, clock, imgVars, upTask, ingestVars>>

(***************************************************************************)
(* Chain: the contract's BatchMinted logs and views                        *)
(***************************************************************************)
MaxQuantity == 2         \* largest quantity of one BatchMinted event
MintAuthors == {WalletA, WalletX}

\* a mint transaction on the contract; two logs share one transaction hash
ChainMint(q, w) ==
    /\ chain.next + q <= MaxTokenId + 1
    /\ LET k == Len(chain.logs) + 1
       IN chain' = [chain EXCEPT
              !.next = @ + q,
              !.logs = Append(@, [tx_hash |-> (k + 1) \div 2, log_index |-> (k + 1) % 2,
                                  start |-> chain.next, quantity |-> q, author |-> w])]
    /\ UNCHANGED <<sup, storeVars, imgVars, upTask, revVars, ingestVars>>

\* the network mines a transaction that had no receipt when the keeper's wait
\* ended
ChainMine(i, status) ==
    /\ i \in DOMAIN chain.txs
    /\ chain.txs[i].status = "pending"
    /\ status \in {"confirmed", "reverted"}
    /\ chain' = [chain EXCEPT
          !.txs[i].status = status,
          !.revealed = IF status = "confirmed"
                       THEN @ \cup SeqToSet(chain.txs[i].token_ids) ELSE @]
    /\ UNCHANGED <<sup, storeVars, imgVars, upTask, revVars, ingestVars>>

\* the log as the node reports it: topics and data words.  Whether
\* startTokenId is an indexed parameter is fixed by the deployed contract.
RawLog(e) ==
    [topics |-> IF chain.indexed THEN <<"BatchMinted", "minter", e.author, e.start>>
                ELSE <<"BatchMinted", "minter", e.author>>,
     data |-> IF chain.indexed THEN <<e.quantity, <<"wei", e.quantity>>>>
              ELSE <<e.start, e.quantity, <<"wei", e.quantity>>>>,
     tx_hash |-> e.tx_hash, log_index |-> e.log_index]

\* contract.tokenPromptAuthor(token_id)
tokenPromptAuthor(id) ==
    LET e == CHOOSE i \in DOMAIN chain.logs :
                 /\ chain.logs[i].start <= id
                 /\ id < chain.logs[i].start + chain.logs[i].quantity
    IN chain.logs[e].author

\* contract.tokenURI(token_id) of a revealed token
tokenURI(id) == <<"ipfs://", <<"meta", id>>>>

(***************************************************************************)
(* Webhook receiver                                                        *)
(***************************************************************************)
Secret == "alchemy_webhook_secret"
OtherKey == "other_key"

HMAC(key, body) == [key |-> key, body |-> body]

\* hex text of a digest; hexdigest() is lower case
Hex(mac, upper) == [present |-> TRUE, mac |-> mac, upper |-> upper]
hexdigest(mac) == Hex(mac, FALSE)
Lower(sig) == [sig EXCEPT !.upper = FALSE]
NoSignature == [present |-> FALSE, mac |-> HMAC(OtherKey, <<>>), upper |-> FALSE]

\* fault variant: the digest is computed over the key alone
validate_alchemy_signature_key_only(raw_body, signature, signing_key) ==
    Lower(signature).mac.key = signing_key

validate_alchemy_signature(raw_body, signature, signing_key) ==
    Lower(hexdigest(HMAC(signing_key, raw_body))) = Lower(signature)

\* decode_batch_minted_event (webhook): startTokenId from topics[3]
decode_batch_minted_event(log) ==
    IF Len(log.topics) < 4 \/ Len(log.data) < 2
    THEN [error |-> TRUE, start |-> 0, quantity |-> 0, total_paid |-> <<>>,
          author |-> Null,
          tx_hash |-> log.tx_hash, log_index |-> log.log_index]
    ELSE [error |-> FALSE, start |-> log.topics[4], quantity |-> log.data[1],
          total_paid |-> log.data[2], author |-> log.topics[3],
          tx_hash |-> log.tx_hash, log_index |-> log.log_index]

\* fault variant: the duplicate check finds nothing
exists_never(rows, tx_hash, log_index) == FALSE

\* MintEventRepository.exists
exists(rows, tx_hash, log_index) ==
    \E i \in DOMAIN rows : rows[i].tx_hash = tx_hash /\ rows[i].log_index = log_index

\* the author a mint is attributed to: the wallet's row, else the default
\* author's row, else none
ResolveAuthor(wallet) ==
    IF authors[wallet].present THEN wallet
    ELSE IF authors[DefaultWallet].present THEN DefaultWallet
    ELSE Null

Requests == 1..MaxDeliveries

NoRequest == [pc |-> "none", sig |-> NoSignature, body |-> <<>>, idx |-> 0,
              parsed |-> FALSE, resp |-> Null, stored |-> 0, after |-> 0]

\* payloads the sender can build: the logs of one block, in order
Payloads ==
    {<<e>> : e \in DOMAIN chain.logs}
    \cup {b \in {<<e, f>> : e \in DOMAIN chain.logs, f \in DOMAIN chain.logs} :
              b[1] < b[2]}

\* signature headers a sender can attach to a body
Signatures(body) ==
    {NoSignature,
     Hex(HMAC(Secret, body), FALSE), Hex(HMAC(Secret, body), TRUE),
     Hex(HMAC(OtherKey, body), FALSE), Hex(HMAC(Secret, <<>>), FALSE)}

\* an HTTP POST reaches /webhooks/alchemy
receive_alchemy_webhook(r, body, sig) ==
    /\ web[r].pc = "none"
    /\ r > 1 => web[r - 1].pc # "none"
    /\ LET earlier == {q \in Requests : /\ web[q].pc = "done"
                                        /\ web[q].body = body
                                        /\ web[q].resp # "401"}
       IN web' = [web EXCEPT ![r] =
              [NoRequest EXCEPT !.pc = "arrived", !.sig = sig, !.body = body,
                  !.after = IF earlier = {} THEN 0
                            ELSE CHOOSE q \in earlier : \A z \in earlier : z <= q]]
    /\ UNCHANGED <<sup, storeVars, imgVars, upTask, revVars, chain, gap, replay>>

\* the dependency that runs before the route handler
validate_webhook_signature(r) ==
    /\ web[r].pc = "arrived"
    /\ web' = [web EXCEPT ![r] =
           IF ~web[r].sig.present
           THEN [@ EXCEPT !.pc = "done", !.resp = "401"]
           ELSE IF ~validate_alchemy_signature(@.body, @.sig, Secret)
           THEN [@ EXCEPT !.pc = "done", !.resp = "401"]
           ELSE [@ EXCEPT !.pc = "handler"]]
    /\ UNCHANGED <<sup, storeVars, imgVars, upTask, revVars, chain, gap, replay>>

\* receive_alchemy_webhook: json.loads and log filtering
webhook_parse_payload(r) ==
    /\ web[r].pc = "handler"
    /\ web' = [web EXCEPT ![r] = [@ EXCEPT !.pc = "check", !.parsed = TRUE, !.idx = 1]]
    /\ UNCHANGED <<sup, storeVars, imgVars, upTask, revVars, chain, gap, replay>>

\* receive_alchemy_webhook, per log: decode, open the unit of work, duplicate check
webhook_check_duplicate(r) ==
    /\ web[r].pc = "check"
    /\ LET event_data ==
               decode_batch_minted_event(RawLog(chain.logs[web[r].body[web[r].idx]]))
       IN web' = [web EXCEPT ![r] =
              IF event_data.error
              THEN [@ EXCEPT !.pc = "done", !.resp = "400"]
              ELSE IF exists(mintEvents, event_data.tx_hash, event_data.log_index)
              THEN [@ EXCEPT !.pc = "done", !.resp = "duplicate"]
              ELSE [@ EXCEPT !.pc = "insert"]]
    /\ UNCHANGED <<sup, storeVars, imgVars, upTask, revVars, chain, gap, replay>>

\* fault variant: what the block wrote is committed even when it raised
UnitOfWorkExitAlwaysCommit(raised, before, after) == after

\* UnitOfWork.__aexit__: commit when the block ended normally, rollback when
\* it raised
UnitOfWorkExit(raised, before, after) == IF raised THEN before ELSE after

\* the token ids of a decoded event
EventTokenIds(event_data) == event_data.start .. (event_data.start + event_data.quantity - 1)

\* receive_alchemy_webhook, per log: author lookup, MintEvent and Token rows,
\* commit at the exit of the unit of work
webhook_store_event(r) ==
    /\ web[r].pc = "insert"
    /\ LET event_data ==
               decode_batch_minted_event(RawLog(chain.logs[web[r].body[web[r].idx]]))
           author == ResolveAuthor(event_data.author)
           ids == EventTokenIds(event_data)
           taken == {t \in ids : tokens[t] # NoRow}
           \* HTTPException (no author) or IntegrityError (token_id is unique)
           raised == author = Null \/ taken # {}
           \* every add() flushes: the rows written before the block was left
           flushed == {t \in ids : \A u \in taken : t < u}
           added_events ==
               IF author = Null THEN mintEvents
               ELSE Append(mintEvents,
                      [tx_hash |-> event_data.tx_hash, log_index |-> event_data.log_index,
                       token_id |-> event_data.start])
           added_tokens ==
               IF author = Null THEN tokens
               ELSE [t \in TokenIds |->
                       IF t \in flushed
                       THEN Token(author, DETECTED, clock + 1 + t - event_data.start)
                       ELSE tokens[t]]
       IN /\ mintEvents' = UnitOfWorkExit(raised, mintEvents, added_events)
          /\ tokens' = UnitOfWorkExit(raised, tokens, added_tokens)
          /\ clock' = UnitOfWorkExit(raised, clock, clock + event_data.quantity)
          /\ web' = [web EXCEPT ![r] =
                IF raised
                THEN \* rolled back, answered 500
                     [@ EXCEPT !.pc = "done", !.resp = "500"]
                ELSE IF @.idx = Len(@.body)
                THEN [@ EXCEPT !.pc = "done", !.resp = "success", !.stored = @ + 1]
                ELSE [@ EXCEPT !.pc = "check", !.idx = @ + 1, !.stored = @ + 1]]
    /\ UNCHANGED <<sup, authors, revealTxs, locks, imgVars, upTask, revVars, chain, gap, replay>>

\* receive_alchemy_webhook, per log: a statement of the unit of work fails in
\* the database (connection lost, timeout); `except Exception` answers 500
\* and the unit of work rolls back
webhook_storage_error(r) ==
    /\ web[r].pc = "insert"
    /\ web' = [web EXCEPT ![r] = [@ EXCEPT !.pc = "done", !.resp = "500"]]
    /\ UNCHANGED <<sup, storeVars, imgVars, upTask, revVars, chain, gap, replay>>

(***************************************************************************)
(* Gap repair: TokenRecoveryService.recover_missing_tokens                 *)
(***************************************************************************)
RECURSIVE SortAsc(_)
SortAsc(S) ==
    IF S = {} THEN <<>>
    ELSE LET m == CHOOSE x \in S : \A y \in S : x <= y
         IN <<m>> \o SortAsc(S \ {m})

NoLimit == <<>>

\* fault variant: the series stops one id early
get_missing_token_ids_short(max_token_id, limit) ==
    LET missing == SortAsc({i \in 1..(max_token_id - 2) : tokens[i] = NoRow})
    IN IF limit = NoLimit THEN missing ELSE Take(missing, limit[1])

\* generate_series(1, max_token_id - 1) LEFT JOIN tokens_s0 ... [LIMIT n]
get_missing_token_ids(max_token_id, limit) ==
    LET missing == SortAsc({i \in 1..(max_token_id - 1) : tokens[i] = NoRow})
    IN IF limit = NoLimit THEN missing ELSE Take(missing, limit[1])

max_retries == 3         \* get_next_token_id: max_retries = 3

\* what one nextTokenId().call() can do: return the counter, fail in the
\* transport, or fail as BadFunctionCallOutput / ContractLogicError
RpcResponses == {"value", "rpc_error", "contract_error"}
RpcScripts == [1..max_retries -> RpcResponses]

RECURSIVE get_next_token_id_from(_, _)
\* the body of `for attempt in range(max_retries)` from `attempt` on;
\* responses[k] is what the k-th call does
get_next_token_id_from(responses, attempt) ==
    IF attempt >= max_retries
    THEN [raised |-> "BlockchainConnectionError", value |-> 0, calls |-> attempt]
    ELSE LET response == responses[attempt + 1]
         IN CASE response = "value" ->
                   [raised |-> Null, value |-> chain.next, calls |-> attempt + 1]
              [] response = "contract_error" ->
                   [raised |-> "ContractNotFoundError", value |-> 0, calls |-> attempt + 1]
              [] response = "rpc_error" ->
                   IF attempt < max_retries - 1
                   THEN get_next_token_id_from(responses, attempt + 1)
                   ELSE [raised |-> "BlockchainConnectionError", value |-> 0,
                         calls |-> attempt + 1]

\* fault variant: the first transport error is final
get_next_token_id_no_retry(responses) ==
    IF responses[1] = "rpc_error"
    THEN [raised |-> "BlockchainConnectionError", value |-> 0, calls |-> 1]
    ELSE get_next_token_id_from(responses, 0)

\* TokenRecoveryService.get_next_token_id
get_next_token_id(responses) == get_next_token_id_from(responses, 0)

NoRun == [pc |-> "idle", N |-> 0, limit |-> NoLimit, missing_ids |-> <<>>,
          status |-> Null, recovered |-> 0, skipped |-> 0, errors |-> 0,
          calls |-> 0, exc |-> Null]

\* steps 1-2: read nextTokenId, query the missing ids
recover_missing_tokens_query(limit, responses) ==
    /\ gap.pc = "idle"
    /\ LET got == get_next_token_id(responses)
           next_token_id == got.value
           missing_ids == get_missing_token_ids(next_token_id, limit)
       IN gap' = IF got.raised # Null
                 THEN \* the exception leaves recover_missing_tokens
                      [NoRun EXCEPT !.limit = limit, !.status = "raised",
                                    !.calls = got.calls, !.exc = got.raised]
                 ELSE IF missing_ids = <<>>
                 THEN [NoRun EXCEPT !.N = next_token_id, !.limit = limit,
                                    !.status = "completed", !.calls = got.calls]
                 ELSE [NoRun EXCEPT !.pc = "run", !.N = next_token_id, !.limit = limit,
                                    !.missing_ids = missing_ids, !.calls = got.calls]
    /\ UNCHANGED <<sup, storeVars, imgVars, upTask, revVars, chain, web, replay>>

\* fault variant: isRevealed is not consulted
RecoveredTokenDetected(token_id, author, created) == Token(author, DETECTED, created)

\* the Token the loop builds for a missing id: revealed with the metadata id of
\* the tokenURI when isRevealed(token_id), detected otherwise
RecoveredToken(token_id, author, created) ==
    IF token_id \in chain.revealed
    THEN [Token(author, REVEALED, created) EXCEPT
            !.metadata_cid = IF tokenURI(token_id)[1] = "ipfs://"
                             THEN tokenURI(token_id)[2] ELSE NoCid]
    ELSE Token(author, DETECTED, created)

RECURSIVE recover_missing_tokens_loop(_, _, _)
\* steps 3-5, the loop over missing_ids.  st is the session: the rows it
\* sees, whether a failed flush has rolled its transaction back, the counters
recover_missing_tokens_loop(ids, rpc_errors, st) ==
    IF ids = <<>> THEN st
    ELSE LET token_id == Head(ids)
             author == ResolveAuthor(tokenPromptAuthor(token_id))
             next ==
               IF st.broken \/ token_id \in rpc_errors \/ author = Null
               THEN \* except Exception: recorded, the loop continues
                    [st EXCEPT !.errors = @ + 1]
               ELSE IF tokens[token_id] # NoRow
               THEN \* except IntegrityError: the flush failed, which rolled
                    \* the session's transaction back
                    [st EXCEPT !.skipped = @ + 1, !.broken = TRUE, !.rows = tokens]
               ELSE [st EXCEPT
                       !.recovered = @ + 1,
                       !.stamp = @ + 1,
                       !.rows = [@ EXCEPT ![token_id] =
                          RecoveredToken(token_id, author, st.stamp + 1)]]
         IN recover_missing_tokens_loop(Tail(ids), rpc_errors, next)

\* steps 3-6: the loop, then the commit at the exit of the unit of work
recover_missing_tokens(rpc_errors) ==
    /\ gap.pc = "run"
    /\ rpc_errors \subseteq SeqToSet(gap.missing_ids)
    /\ LET st == recover_missing_tokens_loop(gap.missing_ids, rpc_errors,
                     [rows |-> tokens, broken |-> FALSE, stamp |-> clock,
                      recovered |-> 0, skipped |-> 0, errors |-> 0])
       IN /\ gap' = [gap EXCEPT !.pc = "idle",
                        !.status = IF st.broken THEN "raised" ELSE "completed",
                        !.recovered = st.recovered, !.skipped = st.skipped,
                        !.errors = st.errors]
          /\ tokens' = IF st.broken THEN tokens ELSE st.rows
          /\ clock' = IF st.broken THEN clock ELSE st.stamp
    /\ UNCHANGED <<sup, authors, mintEvents, revealTxs, locks, imgVars, upTask, revVars,
                   chain, web, replay>>

(***************************************************************************)
(* Log replay: fetch_mint_events, store_recovered_events, the CLI's commit *)
(***************************************************************************)
\* _decode_batch_minted_event (replay): all three numbers from the data words
replay_decode_batch_minted_event(log) ==
    IF Len(log.data) < 3
    THEN \* int("", 16) on the missing third word raises ValueError
         [error |-> TRUE, start |-> 0, quantity |-> 0, total_paid |-> <<>>,
          author |-> Null,
          tx_hash |-> log.tx_hash, log_index |-> log.log_index]
    ELSE [error |-> FALSE, start |-> log.data[1], quantity |-> log.data[2],
          total_paid |-> log.data[3], author |-> log.topics[3],
          tx_hash |-> log.tx_hash, log_index |-> log.log_index]

\* fault variant: every token of the batch is counted as stored, none is
\* inserted
StoreTokensCountOnly(event, author, i, st) ==
    [st EXCEPT !.stored = @ + event.quantity - i]

RECURSIVE StoreTokens(_, _, _, _)
\* store_recovered_events, inner loop: one MintEvent and one Token per token
\* of the batch; exceptions that read as unique-key violations are counted
StoreTokens(event, author, i, st) ==
    IF i >= event.quantity THEN st
    ELSE LET token_id == event.start + i
             next ==
               IF st.broken
               THEN \* the rolled-back session refuses the INSERT, quoting the
                    \* original unique-key violation
                    [st EXCEPT !.skipped = @ + 1]
               ELSE IF st.rows[token_id] # NoRow
               THEN \* the MintEvent was flushed, the Token violates token_id
                    [st EXCEPT !.skipped = @ + 1, !.broken = TRUE,
                               !.rows = tokens, !.events = mintEvents]
               ELSE [st EXCEPT
                       !.stored = @ + 1,
                       !.stamp = @ + 1,
                       !.events = Append(@, [tx_hash |-> event.tx_hash,
                                             log_index |-> event.log_index,
                                             token_id |-> token_id]),
                       !.rows = [@ EXCEPT ![token_id] =
                                    Token(author, DETECTED, st.stamp + 1)]]
         IN StoreTokens(event, author, i + 1, next)

RECURSIVE store_recovered_events(_, _)
store_recovered_events(events, st) ==
    IF events = <<>> \/ st.raised THEN st
    ELSE LET event == Head(events)
             author == ResolveAuthor(event.author)
             next ==
               IF st.broken
               THEN \* the author lookup runs outside the try block
                    [st EXCEPT !.raised = TRUE]
               ELSE IF author = Null THEN st
               ELSE StoreTokens(event, author, 0, st)
         IN store_recovered_events(Tail(events), next)

\* --to-block latest
Latest == <<>>
\* SystemState holds no last_processed_block row
NoBlock == <<>>
MaxBlock == 2            \* largest integer given as --to-block

\* the block of a log: one transaction per block
block_number(log) == log.tx_hash

\* fetch_mint_events: to_block_num is to_block if it is an int, else the
\* head of the chain
InRange(log, to_block) == to_block = Latest \/ block_number(log) <= to_block[1]

\* SystemStateRepository.set_state: INSERT ... ON CONFLICT DO UPDATE
set_state(state_value, value) == <<value>>

\* last_block of async_main: the integer --to-block, else the highest block of
\* the fetched events
last_block(events, to_block) ==
    IF to_block # Latest THEN to_block[1]
    ELSE CHOOSE b \in {block_number(events[i]) : i \in DOMAIN events} :
            \A i \in DOMAIN events : block_number(events[i]) <= b

\* the recover_events command over the logs from from_log (the first log of
\* --from-block) up to to_block
recover_events_main(from_log, to_block) ==
    /\ from_log \in DOMAIN chain.logs
    /\ LET fetched == SubSeq(chain.logs, from_log, Len(chain.logs))
           logs == SelectSeq(fetched, LAMBDA log : InRange(log, to_block))
           events == [i \in DOMAIN logs |-> replay_decode_batch_minted_event(RawLog(logs[i]))]
       IN IF \E i \in DOMAIN events : events[i].error
          THEN \* fetch_mint_events raises: nothing is stored
               /\ replay' = [replay EXCEPT !.status = "decode_error",
                                           !.stored = 0, !.skipped = 0]
               /\ UNCHANGED <<tokens, mintEvents, clock>>
          ELSE IF events = <<>>
          THEN \* `if events:` is false: no unit of work is opened
               /\ replay' = [replay EXCEPT !.status = "no_events",
                                           !.stored = 0, !.skipped = 0]
               /\ UNCHANGED <<tokens, mintEvents, clock>>
          ELSE LET st == store_recovered_events(events,
                            [rows |-> tokens, events |-> mintEvents, broken |-> FALSE,
                             raised |-> FALSE, stamp |-> clock, stored |-> 0,
                             skipped |-> 0])
               IN /\ replay' = [status |-> IF st.broken THEN "raised" ELSE "committed",
                                stored |-> st.stored, skipped |-> st.skipped,
                                last_processed_block |->
                                   IF st.broken THEN replay.last_processed_block
                                   ELSE set_state(replay.last_processed_block,
                                                  last_block(logs, to_block))]
                  /\ tokens' = IF st.broken THEN tokens ELSE st.rows
                  /\ mintEvents' = IF st.broken THEN mintEvents ELSE st.events
                  /\ clock' = IF st.broken THEN clock ELSE st.stamp
    /\ UNCHANGED <<sup, authors, revealTxs, locks, imgVars, upTask, revVars, chain, web, gap>>

(***************************************************************************)
(* Supervisor (create_resilient_worker) and worker start-up                *)
(***************************************************************************)
\* run_reveal_worker up to the construction of the keeper: KeeperService is
\* given max_gas_price_gwei, a keyword its __init__ does not take, so the
\* call raises TypeError and the worker task ends before its loop
run_reveal_worker(p) ==
    /\ revPc[p] = "boot"
    /\ revPc' = [revPc EXCEPT ![p] = "crashed"]
    /\ UNCHANGED <<sup, storeVars, imgVars, upTask, revBatch, lastCall, txCount, chain,
                   ingestVars>>

\* on_worker_done / restart_worker: a worker that ended with an exception is
\* started again after RESTART_DELAY
restart_worker(p) ==
    /\ revPc[p] = "crashed"
    /\ revPc' = [revPc EXCEPT ![p] = "boot"]
    /\ UNCHANGED <<sup, storeVars, imgVars, upTask, revBatch, lastCall, txCount, chain,
                   ingestVars>>

(***************************************************************************)
(* Reveal worker start-up: recover_orphaned_transactions                   *)
(***************************************************************************)
\* w3.eth.get_transaction_receipt: a mined transaction has a receipt whose
\* status is 1 or 0; for any other hash the call raises TransactionNotFound
get_transaction_receipt(tx_hash) ==
    LET i == tx_hash[2]
    IN IF i \in DOMAIN chain.txs /\ chain.txs[i].status # "pending"
       THEN [found |-> TRUE,
             status |-> IF chain.txs[i].status = "confirmed" THEN 1 ELSE 0]
       ELSE [found |-> FALSE, status |-> 0]

\* RevealTransactionRepository.mark_confirmed / mark_failed
reveal_tx_mark_confirmed(tx) == [tx EXCEPT !.status = "confirmed"]
reveal_tx_mark_failed(tx) == [tx EXCEPT !.status = "failed"]

\* fault variant: every member of a confirmed batch is marked
recover_token_any_status(row, tx_hash) ==
    IF row # NoRow THEN mark_revealed(row, tx_hash) ELSE row

\* the member loop of a confirmed transaction: only a token that is still
\* ready is marked revealed
recover_token(row, tx_hash) ==
    IF row # NoRow /\ row.status = READY THEN mark_revealed(row, tx_hash) ELSE row

\* the loop over the pending rows, oldest first; rpc_errors are the rows whose
\* receipt query fails
RECURSIVE recover_pending_from(_, _, _)
recover_pending_from(i, rpc_errors, st) ==
    IF i > Len(st.txs) THEN st
    ELSE LET tx == st.txs[i]
             receipt == get_transaction_receipt(tx.tx_hash)
         IN IF tx.status # "pending" \/ tx.tx_hash = NoTx
            THEN recover_pending_from(i + 1, rpc_errors, st)
            ELSE IF i \in rpc_errors \/ ~receipt.found
            THEN \* except Exception: left as pending
                 recover_pending_from(i + 1, rpc_errors, st)
            ELSE IF receipt.status = 1
            THEN recover_pending_from(i + 1, rpc_errors,
                    [txs |-> [st.txs EXCEPT ![i] = reveal_tx_mark_confirmed(tx)],
                     rows |-> [t \in TokenIds |->
                                 IF t \in SeqToSet(tx.token_ids)
                                 THEN recover_token(st.rows[t], tx.tx_hash)
                                 ELSE st.rows[t]]])
            ELSE recover_pending_from(i + 1, rpc_errors,
                    [st EXCEPT !.txs[i] = reveal_tx_mark_failed(tx)])

\* run_reveal_worker, start-up recovery: recover_orphaned_transactions and
\* the commit that follows it; the polling loop starts afterwards
recover_orphaned_transactions(p, rpc_errors) ==
    /\ revPc[p] = "recover"
    /\ rpc_errors \subseteq DOMAIN revealTxs
    /\ LET st == recover_pending_from(1, rpc_errors,
                                      [txs |-> revealTxs, rows |-> tokens])
       IN /\ revealTxs' = st.txs
          /\ tokens' = st.rows
    /\ revPc' = [revPc EXCEPT ![p] = "idle"]
    /\ UNCHANGED <<sup, authors, mintEvents, locks, clock, imgVars, upTask, revBatch,
                   lastCall, txCount, chain, ingestVars>>

\* the process dies while reveal_batch waits for the receipt: the transaction
\* was sent, the session's connection is dropped (nothing of the iteration is
\* committed, the row locks are released), and the worker starts again at
\* its start-up recovery
reveal_worker_killed(p) ==
    /\ revPc[p] = "batch"
    /\ txCount < MaxTx
    /\ txCount' = txCount + 1
    /\ chain' = [chain EXCEPT !.txs = Append(@, SentTx(revBatch[p], "pending"))]
    /\ lastCall' = [token_ids |-> BatchTokenIds(revBatch[p]),
                    metadata_uris |-> MetadataUris(revBatch[p])]
    /\ locks' = ReleaseRows(locks, RevOwner(p))
    /\ revBatch' = [revBatch EXCEPT ![p] = <<>>]
    /\ revPc' = [revPc EXCEPT ![p] = "recover"]
    /\ UNCHANGED <<sup, authors, tokens, mintEvents, revealTxs, clock, imgVars, upTask,
                   ingestVars>>

(***************************************************************************)
(* Lifespan: create_resilient_worker, on_worker_done, shutdown             *)
(***************************************************************************)
Workers == {"image_generation", "ipfs_upload", "reveal"}

MaxInstances == 3        \* task instances a worker has had, the first included
RESTART_DELAY == 1       \* seconds restart_worker sleeps

\* a task made by asyncio.create_task(coro_func(session_factory, settings)),
\* with its done callback and the restart task the callback may create
NewTask == [state |-> "starting", callback |-> "none", restart |-> "none", slept |-> 0]

\* no application is running
NoLifespan == [pc |-> "none", shutdown_event |-> FALSE,
               tasks |-> [w \in Workers |-> <<>>]]

Done(task) == task.state \in {"exception", "cancelled"}

\* start-up code that runs outside the worker's own exception handling:
\* the orphan reset of the image worker can fail with the database, the
\* reveal worker's KeeperService(...) call raises TypeError; the upload
\* worker touches nothing before its loop
RaisesAtStartup(w) == w \in {"image_generation", "reveal"}
ReachesLoop(w) == w # "reveal"

\* the worker coroutine reaches its polling loop, which catches Exception
worker_enters_loop(w, i) ==
    /\ sup.pc # "none"
    /\ i \in DOMAIN sup.tasks[w]
    /\ sup.tasks[w][i].state = "starting"
    /\ ReachesLoop(w)
    /\ sup' = [sup EXCEPT !.tasks[w][i].state = "running"]
    /\ UNCHANGED <<storeVars, imgVars, upTask, revVars, chain, ingestVars>>

\* the worker coroutine ends with an exception; the loop schedules the task's
\* done callback
worker_raises(w, i) ==
    /\ sup.pc # "none"
    /\ i \in DOMAIN sup.tasks[w]
    /\ sup.tasks[w][i].state = "starting"
    /\ RaisesAtStartup(w)
    /\ i < MaxInstances \/ sup.shutdown_event
    /\ sup' = [sup EXCEPT !.tasks[w][i].state = "exception",
                          !.tasks[w][i].callback = "scheduled"]
    /\ UNCHANGED <<storeVars, imgVars, upTask, revVars, chain, ingestVars>>

\* CancelledError is raised inside a task whose cancellation was requested;
\* the workers re-raise it
worker_cancelled(w, i) ==
    /\ i \in DOMAIN sup.tasks[w]
    /\ sup.tasks[w][i].state = "cancelling"
    /\ sup' = [sup EXCEPT !.tasks[w][i].state = "cancelled",
                          !.tasks[w][i].callback = "scheduled"]
    /\ UNCHANGED <<storeVars, imgVars, upTask, revVars, chain, ingestVars>>

\* fault variant: the shutdown event is not consulted
schedules_restart_ignoring_shutdown(is_set, ended) == ended # "cancelled"

\* on_worker_done up to `# Schedule restart`: whether a restart task is made
\* for a task that ended as `ended` ("exception", "returned", "cancelled")
schedules_restart(is_set, ended) ==
    IF is_set THEN FALSE
    ELSE IF ended = "cancelled" THEN FALSE
    ELSE TRUE

\* on_worker_done, the done callback of a worker task
on_worker_done(w, i) ==
    /\ i \in DOMAIN sup.tasks[w]
    /\ sup.tasks[w][i].callback = "scheduled"
    /\ sup' = [sup EXCEPT
          !.tasks[w][i].callback = "done",
          !.tasks[w][i].restart =
              IF schedules_restart(sup.shutdown_event, sup.tasks[w][i].state)
              THEN "sleeping" ELSE @]
    /\ UNCHANGED <<storeVars, imgVars, upTask, revVars, chain, ingestVars>>

\* one second passes for the restart tasks that sleep
Tick ==
    /\ \E w \in Workers : \E i \in DOMAIN sup.tasks[w] :
          sup.tasks[w][i].restart = "sleeping" /\ sup.tasks[w][i].slept < RESTART_DELAY
    /\ sup' = [sup EXCEPT !.tasks =
          [w \in Workers |-> [i \in DOMAIN sup.tasks[w] |->
              IF sup.tasks[w][i].restart = "sleeping" /\ sup.tasks[w][i].slept < RESTART_DELAY
              THEN [sup.tasks[w][i] EXCEPT !.slept = @ + 1]
              ELSE sup.tasks[w][i]]]]
    /\ UNCHANGED <<storeVars, imgVars, upTask, revVars, chain, ingestVars>>

\* fault variant: the restart task goes back to sleep and creates again
restart_worker_loops(restart) == restart

\* restart_worker ends after the one create_task
restart_worker_returns(restart) == "started"

\* restart_worker after its sleep: give up when shutdown was requested,
\* otherwise create the new task and attach on_worker_done to it
restart_worker_after_sleep(w, i) ==
    /\ i \in DOMAIN sup.tasks[w]
    /\ sup.tasks[w][i].restart = "sleeping"
    /\ sup.tasks[w][i].slept >= RESTART_DELAY
    /\ IF sup.shutdown_event
       THEN sup' = [sup EXCEPT !.tasks[w][i].restart = "abandoned"]
       ELSE /\ Len(sup.tasks[w]) < MaxInstances
            /\ sup' = [sup EXCEPT !.tasks[w] =
                   Append([@ EXCEPT ![i].restart = restart_worker_returns(@)], NewTask)]
    /\ UNCHANGED <<storeVars, imgVars, upTask, revVars, chain, ingestVars>>

\* lifespan up to `# Run token recovery before starting workers`
lifespan(app) ==
    /\ sup.pc = "none"
    /\ sup' = [sup EXCEPT !.pc = "recovery"]
    /\ UNCHANGED <<storeVars, imgVars, upTask, revVars, chain, ingestVars>>

\* the recovery block of lifespan finds the network unsupported or the node
\* not connected
lifespan_recovery_skipped(reason) ==
    /\ sup.pc = "recovery"
    /\ gap = NoRun
    /\ gap' = [NoRun EXCEPT !.status = "skipped", !.exc = reason]
    /\ UNCHANGED <<sup, storeVars, imgVars, upTask, revVars, chain, web, replay>>

\* the recovery block of lifespan: `await recover_missing_tokens(...)`
lifespan_recovery(step) ==
    /\ sup.pc = "recovery"
    /\ gap.status = Null
    /\ step

\* fault variant: the recovery runs as a task of its own
recovery_in_background(run) == TRUE

\* the recovery block has been left: recover_missing_tokens returned or
\* raised (`except Exception`), or the block was skipped
recovery_awaited(run) == run.pc = "idle" /\ run.status # Null

\* lifespan from `shutdown_event = asyncio.Event()` to `yield`: the three
\* create_resilient_worker calls; the server takes requests after the yield
lifespan_start_workers ==
    /\ sup.pc = "recovery"
    /\ recovery_awaited(gap)
    /\ sup' = [pc |-> "serving", shutdown_event |-> FALSE,
               tasks |-> [w \in Workers |-> <<NewTask>>]]
    /\ UNCHANGED <<storeVars, imgVars, upTask, revVars, chain, ingestVars>>

\* a request reaches a route of the application
accepts_requests(step) ==
    /\ sup.pc = "serving"
    /\ step

\* lifespan after yield: shutdown_event.set(), then cancel() on the three
\* task handles create_resilient_worker returned
lifespan_shutdown ==
    /\ sup.pc = "serving"
    /\ sup' = [sup EXCEPT
          !.pc = "gather",
          !.shutdown_event = TRUE,
          !.tasks = [w \in Workers |->
              [i \in DOMAIN sup.tasks[w] |->
                  IF i = 1 /\ ~Done(sup.tasks[w][i])
                  THEN [sup.tasks[w][i] EXCEPT !.state = "cancelling"]
                  ELSE sup.tasks[w][i]]]]
    /\ UNCHANGED <<storeVars, imgVars, upTask, revVars, chain, ingestVars>>

\* asyncio.gather over the same three handles returns
lifespan_gather ==
    /\ sup.pc = "gather"
    /\ \A w \in Workers : Done(sup.tasks[w][1])
    /\ sup' = [sup EXCEPT !.pc = "stopped"]
    /\ UNCHANGED <<storeVars, imgVars, upTask, revVars, chain, ingestVars>>

(***************************************************************************)
(* Specifications                                                          *)
(***************************************************************************)
AuthorsWith(default_author) ==
    [w \in Wallets |->
        CASE w = WalletA -> Author("promptA")
          [] w = WalletB -> Author(Null)
          [] w = WalletX -> NoAuthor
          [] w = DefaultWallet -> default_author]

\* author of the seeded token t: odd ids belong to the author without prompt
SeedAuthor(t) == IF t % 2 = 1 THEN WalletB ELSE WalletA

EmptyChain == [next |-> 1, logs |-> <<>>, revealed |-> {}, indexed |-> TRUE,
               txs |-> <<>>]

InitIdleStages ==
    /\ mintEvents = <<>>
    /\ locks = [t \in TokenIds |-> NoLock]
    /\ imgTask = [p \in Procs |-> [t \in TokenIds |-> NoTask]]
    /\ upTask = [p \in Procs |-> [t \in TokenIds |-> "none"]]
    /\ revBatch = [p \in Procs |-> <<>>]
    /\ lastCall = NoCall
    /\ txCount = 0
    /\ web = [r \in Requests |-> NoRequest]
    /\ gap = NoRun
    /\ replay = [status |-> Null, stored |-> 0, skipped |-> 0,
                 last_processed_block |-> NoBlock]

InitIdle ==
    /\ InitIdleStages
    /\ revealTxs = <<>>

\* Pipeline: image and upload workers of NumProcs processes over detected rows
Init ==
    /\ InitIdle
    /\ authors \in {AuthorsWith(d) : d \in {NoAuthor, Author(Null), Author("promptD")}}
    /\ tokens = [t \in TokenIds |->
                   IF t <= PipelineTokens THEN Token(SeedAuthor(t), DETECTED, t)
                   ELSE NoRow]
    /\ clock = PipelineTokens
    /\ chain = [EmptyChain EXCEPT !.next = PipelineTokens + 1]
    /\ imgPc = [p \in Procs |-> "boot"]
    /\ revPc = [p \in Procs |-> "boot"]
    /\ sup = NoLifespan

Next ==
    \/ \E p \in Procs : run_image_generation_worker(p)
    \/ \E p \in Procs : image_process_batch(p)
    \/ \E p \in Procs, t \in TokenIds : image_fetch_token(p, t)
    \/ \E p \in Procs, t \in TokenIds : image_mark_generating(p, t)
    \/ \E p \in Procs, t \in TokenIds, o \in ImageOutcomes : image_process_single_token(p, t, o)
    \/ \E p \in Procs : ipfs_process_batch(p)
    \/ \E p \in Procs, t \in TokenIds, o \in UploadOutcomes : ipfs_process_single_token(p, t, o)

Spec == Init /\ [][Next]_vars

\* Pipeline with handlers that may also end in an unexpected exception: the
\* image workers of NumProcs processes and the upload worker of one
FaultNext ==
    \/ \E p \in Procs : run_image_generation_worker(p)
    \/ \E p \in Procs : image_process_batch(p)
    \/ \E p \in Procs, t \in TokenIds : image_fetch_token(p, t)
    \/ \E p \in Procs, t \in TokenIds : image_mark_generating(p, t)
    \/ \E p \in Procs, t \in TokenIds, o \in HandlerOutcomes : image_process_single_token(p, t, o)
    \/ ipfs_process_batch(1)
    \/ \E t \in TokenIds, o \in UploadOutcomes \cup {"unexpected"} :
          ipfs_process_single_token(1, t, o)

FaultSpec == Init /\ [][FaultNext]_vars

\* Reveal stage: the loop of run_reveal_worker in NumProcs processes, fed by
\* one upload worker
RevealInit ==
    /\ InitIdle
    /\ authors = AuthorsWith(Author("promptD"))
    /\ tokens = [t \in TokenIds |->
                   update_image_url(Token(SeedAuthor(t), DETECTED, t),
                                    generate_image("promptA"))]
    /\ clock = MaxTokenId
    /\ chain = [EmptyChain EXCEPT !.next = MaxTokenId + 1]
    /\ imgPc = [p \in Procs |-> "poll"]
    /\ revPc = [p \in Procs |-> "idle"]
    /\ sup = NoLifespan

RevealNext ==
    \/ ipfs_process_batch(1)
    \/ \E t \in TokenIds : ipfs_process_single_token(1, t, "ok")
    \/ \E p \in Procs : get_batch_first_query(p)
    \/ \E p \in Procs : get_batch_second_query(p)
    \/ \E p \in Procs, o \in RevealOutcomes : process_reveal_batch(p, o)
    \/ \E i \in 1..MaxTx, st \in {"confirmed", "reverted"} : ChainMine(i, st)

RevealSpec == RevealInit /\ [][RevealNext]_vars

\* Start-up recovery of the reveal worker over a store that holds pending
\* reveal_transactions rows: the first for tokens 1 and 2, the second for
\* tokens 2 and 3.  The member tokens are ready, already revealed or failed.
ReadyToken(t) ==
    update_ipfs_cids(update_image_url(Token(SeedAuthor(t), DETECTED, t),
                                      generate_image("promptA")),
                     <<"image", t>>, <<"meta", t>>)

MemberTokens(t) ==
    {ReadyToken(t),
     mark_revealed(ReadyToken(t), <<"tx", 0>>),
     mark_failed(Token(SeedAuthor(t), DETECTED, t), Message(ShortMessage))}

\* the audit row of the transaction that revealed, before the run, the
\* tokens the store holds as revealed
EarlierReveals(tbl) ==
    LET ids == SortAsc({t \in TokenIds : tbl[t].tx = <<"tx", 0>>})
    IN IF ids = <<>> THEN <<>>
       ELSE <<RevealTransaction(ids, <<"tx", 0>>, "confirmed")>>

PendingTx(token_ids, tx_hash) ==
    [token_ids |-> token_ids, tx_hash |-> tx_hash, status |-> "pending"]

ReconcileInit ==
    /\ mintEvents = <<>>
    /\ locks = [t \in TokenIds |-> NoLock]
    /\ imgTask = [p \in Procs |-> [t \in TokenIds |-> NoTask]]
    /\ upTask = [p \in Procs |-> [t \in TokenIds |-> "none"]]
    /\ revBatch = [p \in Procs |-> <<>>]
    /\ lastCall = NoCall
    /\ web = [r \in Requests |-> NoRequest]
    /\ gap = NoRun
    /\ replay = [status |-> Null, stored |-> 0, skipped |-> 0,
                 last_processed_block |-> NoBlock]
    /\ authors = AuthorsWith(Author("promptD"))
    /\ tokens \in {f \in [TokenIds -> UNION {MemberTokens(t) : t \in TokenIds}] :
                      \A t \in TokenIds : f[t] \in MemberTokens(t)}
    /\ revealTxs \in {<<PendingTx(<<1, 2>>, <<"tx", 1>>), second>> \o EarlierReveals(tokens) :
                         second \in {PendingTx(<<2, 3>>, <<"tx", 2>>),
                                     PendingTx(<<2, 3>>, NoTx),
                                     reveal_tx_mark_failed(PendingTx(<<2, 3>>, <<"tx", 2>>))}}
    /\ clock = MaxTokenId
    /\ chain = [EmptyChain EXCEPT !.next = MaxTokenId + 1,
                                  !.txs = <<SentTx(<<1, 2>>, "pending"),
                                            SentTx(<<2, 3>>, "pending")>>]
    /\ txCount = MaxTx
    /\ imgPc = [p \in Procs |-> "poll"]
    /\ revPc = [p \in Procs |-> IF p = 1 THEN "recover" ELSE "idle"]
    /\ sup = NoLifespan

ReconcileNext ==
    \/ \E i \in 1..MaxTx, st \in {"confirmed", "reverted"} : ChainMine(i, st)
    \/ \E rpc_errors \in SUBSET (1..MaxTx) : recover_orphaned_transactions(1, rpc_errors)

ReconcileSpec == ReconcileInit /\ [][ReconcileNext]_vars

\* The reveal worker of one process from its start-up recovery on, over ready
\* tokens, with a wait that may time out and a process that may die while
\* waiting.  Whether revealTokens reverts for a token that is already
\* revealed is fixed by the deployed contract.  Calls succeed when the
\* contract allows them, and the last transaction the keeper may send is
\* waited for to the end.
Contract(reverts_revealed) ==
    [next |-> MaxTokenId + 1, logs |-> <<>>, revealed |-> {}, indexed |-> TRUE,
     txs |-> <<>>, reverts_revealed |-> reverts_revealed]

ContractRejects(token_ids) ==
    chain.reverts_revealed /\ SeqToSet(token_ids) \cap chain.revealed # {}

MayTimeOut == txCount < MaxTx - 1

\* estimate_gas simulates the call: a call the contract rejects raises
\* GasEstimationError and nothing is sent
CallOutcomes(batch) ==
    IF ContractRejects(batch) THEN {"transient"}
    ELSE IF MayTimeOut THEN {"confirmed", "timeout"}
    ELSE {"confirmed"}

MinedStatuses(i) ==
    IF i \in DOMAIN chain.txs /\ ContractRejects(chain.txs[i].token_ids)
    THEN {"reverted"} ELSE {"confirmed", "reverted"}

OrphanInit ==
    /\ InitIdleStages
    /\ authors = AuthorsWith(Author("promptD"))
    /\ tokens \in {f \in [TokenIds -> UNION {MemberTokens(t) : t \in TokenIds}] :
                      /\ \A t \in TokenIds : f[t] \in MemberTokens(t)
                      /\ \A t \in 1..BatchRevealMaxTokens : f[t] = ReadyToken(t)}
    /\ revealTxs = EarlierReveals(tokens)
    /\ clock = MaxTokenId
    /\ chain \in {Contract(b) : b \in BOOLEAN}
    /\ imgPc = [p \in Procs |-> "poll"]
    /\ revPc = [p \in Procs |-> IF p = 1 THEN "recover" ELSE "idle"]
    /\ sup = NoLifespan

OrphanWorker ==
    \/ \E rpc_errors \in SUBSET (1..MaxTx) : recover_orphaned_transactions(1, rpc_errors)
    \/ get_batch_first_query(1)
    \/ get_batch_second_query(1)
    \/ \E o \in CallOutcomes(revBatch[1]) : process_reveal_batch(1, o)

OrphanNext ==
    \/ OrphanWorker
    \/ MayTimeOut /\ reveal_worker_killed(1)
    \/ \E i \in 1..MaxTx : \E st \in MinedStatuses(i) : ChainMine(i, st)

OrphanSpec ==
    /\ OrphanInit
    /\ [][OrphanNext]_vars
    /\ WF_vars(OrphanWorker)

\* Start of the image worker over a store whose tokens are in any of the six
\* states: a generating row is one a worker that ended had claimed, on its
\* first attempt or after a transient failure
StageTokens(t) ==
    MemberTokens(t) \cup
    {Token(SeedAuthor(t), DETECTED, t),
     Token(SeedAuthor(t), GENERATING, t),
     [increment_attempts(Token(SeedAuthor(t), GENERATING, t), Message(ShortMessage))
         EXCEPT !.status = GENERATING],
     update_image_url(Token(SeedAuthor(t), DETECTED, t), generate_image("promptA"))}

ResetInit ==
    /\ InitIdleStages
    /\ authors = AuthorsWith(Author("promptD"))
    /\ tokens \in {f \in [TokenIds -> UNION {StageTokens(t) : t \in TokenIds}] :
                      \A t \in TokenIds : f[t] \in StageTokens(t)}
    /\ revealTxs = EarlierReveals(tokens)
    /\ clock = MaxTokenId
    /\ chain = [EmptyChain EXCEPT !.next = MaxTokenId + 1]
    /\ imgPc = [p \in Procs |-> "boot"]
    /\ revPc = [p \in Procs |-> "idle"]
    /\ sup = NoLifespan

ResetNext == \E p \in Procs : run_image_generation_worker(p)

ResetSpec == ResetInit /\ [][ResetNext]_vars

\* Upload workers of NumProcs processes feeding the reveal worker of one, with
\* uploads that succeed and transactions that confirm
UploadRevealNext ==
    \/ \E p \in Procs : ipfs_process_batch(p)
    \/ \E p \in Procs, t \in TokenIds : ipfs_process_single_token(p, t, "ok")
    \/ get_batch_first_query(1)
    \/ get_batch_second_query(1)
    \/ process_reveal_batch(1, "confirmed")

UploadRevealSpec == RevealInit /\ [][UploadRevealNext]_vars

\* Ingestion starts from an empty store and a chain with one mint; layouts
\* are the event declarations the deployed contract may have
IngestInit(layouts) ==
    /\ InitIdle
    /\ authors \in {AuthorsWith(d) : d \in {NoAuthor, Author("promptD")}}
    /\ tokens = [t \in TokenIds |-> NoRow]
    /\ clock = 0
    /\ \E ix \in layouts, rv \in {{}, {1}} :
          chain = [next |-> 2,
                   logs |-> <<[tx_hash |-> 1, log_index |-> 0, start |-> 1,
                               quantity |-> 1, author |-> WalletA]>>,
                   revealed |-> rv, indexed |-> ix]
    /\ imgPc = [p \in Procs |-> "boot"]
    /\ revPc = [p \in Procs |-> "boot"]
    /\ sup = NoLifespan

\* Webhook deliveries against a chain that mints
WebhookNext ==
    \/ \E q \in 1..MaxQuantity, w \in MintAuthors : ChainMint(q, w)
    \/ \E r \in Requests : \E body \in Payloads : \E sig \in Signatures(body) :
          receive_alchemy_webhook(r, body, sig)
    \/ \E r \in Requests : validate_webhook_signature(r)
    \/ \E r \in Requests : webhook_parse_payload(r)
    \/ \E r \in Requests : webhook_check_duplicate(r)
    \/ \E r \in Requests : webhook_store_event(r)

WebhookInit == IngestInit({TRUE})

WebhookSpec == WebhookInit /\ [][WebhookNext]_vars

\* Deliveries of a sender that signs its pushes and repeats a push answered
\* 500, against a database whose statements can fail
RedeliveryNext ==
    \/ \E q \in 1..MaxQuantity, w \in MintAuthors : ChainMint(q, w)
    \/ \E r \in Requests : \E body \in Payloads :
          receive_alchemy_webhook(r, body, Hex(HMAC(Secret, body), FALSE))
    \/ \E r \in Requests : validate_webhook_signature(r)
    \/ \E r \in Requests : webhook_parse_payload(r)
    \/ \E r \in Requests : webhook_check_duplicate(r)
    \/ \E r \in Requests : webhook_store_event(r)
    \/ \E r \in Requests : webhook_storage_error(r)

RedeliveryInit == IngestInit({TRUE})

RedeliverySpec == RedeliveryInit /\ [][RedeliveryNext]_vars

\* Log replay, run any number of times against a chain that mints
ReplayNext ==
    \/ \E q \in 1..MaxQuantity, w \in MintAuthors : ChainMint(q, w)
    \/ \E from_log \in 1..MaxTokenId, to_block \in {Latest} \cup {<<b>> : b \in 1..MaxBlock} :
          recover_events_main(from_log, to_block)

ReplayInit == IngestInit(BOOLEAN)

ReplaySpec == ReplayInit /\ [][ReplayNext]_vars

\* Gap repair racing one webhook delivery against a chain that mints
GapNext ==
    \/ \E q \in 1..MaxQuantity, w \in MintAuthors : ChainMint(q, w)
    \/ \E body \in Payloads : receive_alchemy_webhook(1, body, Hex(HMAC(Secret, body), FALSE))
    \/ validate_webhook_signature(1)
    \/ webhook_parse_payload(1)
    \/ webhook_check_duplicate(1)
    \/ webhook_store_event(1)
    \/ \E limit \in {NoLimit, <<1>>}, responses \in RpcScripts :
          recover_missing_tokens_query(limit, responses)
    \/ \E rpc_errors \in SUBSET TokenIds : recover_missing_tokens(rpc_errors)

GapInit == IngestInit({TRUE})

GapSpec == GapInit /\ [][GapNext]_vars

\* Gap repair next to the pipeline up to ready, with external calls that
\* succeed: tokens that the image worker of one process and the upload
\* workers of NumProcs processes carry forward, and tokens that gap repair
\* inserts, some already revealed on the chain
CidNext ==
    \/ \E q \in 1..MaxQuantity, w \in MintAuthors : ChainMint(q, w)
    \/ recover_missing_tokens_query(NoLimit, [i \in 1..max_retries |-> "value"])
    \/ \E rpc_errors \in SUBSET TokenIds : recover_missing_tokens(rpc_errors)
    \/ run_image_generation_worker(1)
    \/ image_process_batch(1)
    \/ \E t \in TokenIds : image_fetch_token(1, t)
    \/ \E t \in TokenIds : image_mark_generating(1, t)
    \/ \E t \in TokenIds : image_process_single_token(1, t, "ok")
    \/ \E p \in Procs : ipfs_process_batch(p)
    \/ \E p \in Procs, t \in TokenIds : ipfs_process_single_token(p, t, "ok")

CidInit == IngestInit({TRUE})

CidSpec == CidInit /\ [][CidNext]_vars

\* Lifecycle of one process: the three supervised workers, external calls
\* that fail transiently and succeed when retried, authors with prompts
LifeInit ==
    /\ InitIdle
    /\ authors = AuthorsWith(Author("promptD"))
    /\ tokens = [t \in TokenIds |->
                   IF t <= PipelineTokens THEN Token(SeedAuthor(t), DETECTED, t)
                   ELSE NoRow]
    /\ clock = PipelineTokens
    /\ chain = [EmptyChain EXCEPT !.next = PipelineTokens + 1]
    /\ imgPc = [p \in Procs |-> "boot"]
    /\ revPc = [p \in Procs |-> "boot"]
    /\ sup = NoLifespan

ImageWorker ==
    \/ run_image_generation_worker(1)
    \/ image_process_batch(1)
    \/ \E t \in TokenIds : image_fetch_token(1, t)
    \/ \E t \in TokenIds : image_mark_generating(1, t)
    \/ \E t \in TokenIds, o \in {"ok", "transient"} : image_process_single_token(1, t, o)

UploadWorker ==
    \/ ipfs_process_batch(1)
    \/ \E t \in TokenIds, o \in {"ok", "transient"} : ipfs_process_single_token(1, t, o)

RevealWorker ==
    \/ run_reveal_worker(1)
    \/ restart_worker(1)

LifeNext == ImageWorker \/ UploadWorker \/ RevealWorker

LifeSpec ==
    /\ LifeInit
    /\ [][LifeNext]_vars
    /\ WF_vars(ImageWorker)
    /\ WF_vars(UploadWorker)
    /\ WF_vars(RevealWorker)

\* Start-up of one application against a chain that mints: gap repair, the
\* workers, one webhook delivery
StartupNext ==
    \/ \E q \in 1..MaxQuantity, w \in MintAuthors : ChainMint(q, w)
    \/ lifespan("app")
    \/ \E reason \in {"unsupported_network", "web3_connection_failed"} :
          lifespan_recovery_skipped(reason)
    \/ \E limit \in {NoLimit, <<1>>}, responses \in RpcScripts :
          lifespan_recovery(recover_missing_tokens_query(limit, responses))
    \/ \E rpc_errors \in SUBSET TokenIds :
          lifespan_recovery(recover_missing_tokens(rpc_errors))
    \/ lifespan_start_workers
    \/ \E w \in Workers : worker_enters_loop(w, 1)
    \/ \E body \in Payloads :
          accepts_requests(receive_alchemy_webhook(1, body, Hex(HMAC(Secret, body), FALSE)))
    \/ validate_webhook_signature(1)
    \/ webhook_parse_payload(1)
    \/ webhook_check_duplicate(1)
    \/ webhook_store_event(1)

StartupInit == IngestInit({TRUE})

StartupSpec == StartupInit /\ [][StartupNext]_vars

\* One application: lifespan has created the three resilient workers
SupervisorInit ==
    /\ InitIdle
    /\ authors = AuthorsWith(Author("promptD"))
    /\ tokens = [t \in TokenIds |-> NoRow]
    /\ clock = 0
    /\ chain = EmptyChain
    /\ imgPc = [p \in Procs |-> "boot"]
    /\ revPc = [p \in Procs |-> "boot"]
    /\ sup = [pc |-> "serving", shutdown_event |-> FALSE,
              tasks |-> [w \in Workers |-> <<NewTask>>]]

\* what the event loop does without being asked to
EventLoop ==
    \/ \E w \in Workers, i \in 1..MaxInstances : worker_enters_loop(w, i)
    \/ \E w \in Workers, i \in 1..MaxInstances : worker_cancelled(w, i)
    \/ \E w \in Workers, i \in 1..MaxInstances : on_worker_done(w, i)
    \/ \E w \in Workers, i \in 1..MaxInstances : restart_worker_after_sleep(w, i)
    \/ Tick
    \/ lifespan_gather

SupervisorNext ==
    \/ EventLoop
    \/ \E w \in Workers, i \in 1..MaxInstances : worker_raises(w, i)
    \/ lifespan_shutdown

SupervisorSpec ==
    /\ SupervisorInit
    /\ [][SupervisorNext]_vars
    /\ WF_vars(EventLoop)

(***************************************************************************)
(* Properties                                                              *)
(***************************************************************************)
Terminal == {REVEALED, FAILED}

\* the edges the lifecycle allows
AllowedEdge(a, b) ==
    \/ <<a, b>> \in {<<DETECTED, GENERATING>>, <<GENERATING, UPLOADING>>,
                     <<UPLOADING, READY>>, <<READY, REVEALED>>,
                     <<GENERATING, DETECTED>>}
    \/ a \in {DETECTED, GENERATING, UPLOADING, READY} /\ b = FAILED

\* C1: under weak fairness of the three workers, with external calls that
\* succeed when retried, every token that is detected is eventually revealed
C1_DetectedLeadsToRevealed ==
    \A t \in TokenIds : (tokens[t].status = DETECTED) ~> (tokens[t].status = REVEALED)

\* C2: every committed change of a token's status is an allowed edge
C2_OnlyAllowedEdges ==
    [][\A t \in TokenIds :
          tokens'[t].status # tokens[t].status
             => AllowedEdge(tokens[t].status, tokens'[t].status)]_vars

\* C3: a token that is revealed or failed never changes status again
C3_TerminalIsFinal ==
    [][\A t \in TokenIds :
          tokens[t].status \in Terminal => tokens'[t].status = tokens[t].status]_vars

\* a token is in the claim of process p: claimed, not yet advanced or released
InImageClaim(p, t) == imgTask[p][t].st \in {"fetch", "mark"}
InUploadClaim(p, t) == upTask[p][t] = "run"
InRevealClaim(p, t) == t \in SeqToSet(revBatch[p])

\* C4: for each stage, no token is in the claims of two processes at once
C4_ClaimsDisjoint ==
    \A t \in TokenIds : \A p \in Procs : \A q \in Procs \ {p} :
        /\ ~(InImageClaim(p, t) /\ InImageClaim(q, t))
        /\ ~(InUploadClaim(p, t) /\ InUploadClaim(q, t))
        /\ ~(InRevealClaim(p, t) /\ InRevealClaim(q, t))

\* C5: at most one MintEvent row for any (tx_hash, log_index) pair
C5_OneEventPerLog ==
    \A i \in DOMAIN mintEvents : \A j \in DOMAIN mintEvents :
        (/\ mintEvents[i].tx_hash = mintEvents[j].tx_hash
         /\ mintEvents[i].log_index = mintEvents[j].log_index) => i = j

\* a validly signed request that arrived after an earlier validly signed
\* delivery of the same body had been answered
IsRedelivery(r) ==
    /\ web[r].pc = "done"
    /\ web[r].after # 0
    /\ web[r].resp # "401"

RepairCompleted ==
    gap.pc = "idle" /\ gap.status = "completed" /\ gap.limit = NoLimit

NoGapBelow(n) == \A id \in 1..(n - 1) : tokens[id] # NoRow

C8_BatchBounds ==
    /\ \A i \in DOMAIN revealTxs :
          /\ Len(revealTxs[i].token_ids) >= 1
          /\ Len(revealTxs[i].token_ids) <= BatchRevealMaxTokens
    /\ Len(lastCall.metadata_uris) = Len(lastCall.token_ids)

C8_Witness ==
    /\ \E i \in DOMAIN revealTxs : Len(revealTxs[i].token_ids) = BatchRevealMaxTokens
    /\ \E t \in TokenIds : tokens[t].status = READY
    /\ Len(lastCall.token_ids) = BatchRevealMaxTokens

\* the header is missing, or the digest it carries is not that of the body
\* under the webhook secret
BadSignature(req) ==
    ~req.sig.present \/ req.sig.mac # HMAC(Secret, req.body)

\* C9: every step of a request with a missing or wrong signature leaves
\* MintEvent and Token rows alone, never parses the payload, and ends in 401
C9_BadSignatureRejected ==
    [][\A r \in Requests :
          (web'[r] # web[r] /\ BadSignature(web'[r])) =>
             /\ tokens' = tokens
             /\ mintEvents' = mintEvents
             /\ ~web'[r].parsed
             /\ web'[r].pc \in {"arrived", "done"}
             /\ web'[r].pc = "done" => web'[r].resp = "401"]_vars

C9_Witness ==
    /\ \E r \in Requests :
          web[r].pc = "done" /\ web[r].sig.present /\ BadSignature(web[r])
             /\ web[r].resp = "401"
    /\ \E r \in Requests :
          web[r].pc = "done" /\ ~web[r].sig.present /\ web[r].resp = "401"

HasNoPrompt(wallet) == ~authors[wallet].present \/ authors[wallet].prompt = Null

Truncated(row) == row.error # NoError /\ row.error.len <= GenerationErrorMax

ImagePermanentError(p, t) ==
    image_process_single_token(p, t, "permanent") /\ ResolvePrompt(tokens[t]) # "ValueError"

UploadPermanentError(p, t) ==
    ipfs_process_single_token(p, t, "permanent") /\ tokens[t].image_url # NoUrl

ReadsTopicsAndData(event, log) ==
    /\ ~event.error
    /\ event.start = log.topics[4]
    /\ event.quantity = log.data[1]
    /\ event.total_paid = log.data[2]

\* C17: for every BatchMinted log of a contract that indexes startTokenId,
\* the webhook decoder and the log-replay decoder both return startTokenId
\* from topics[3] and quantity and totalPaid from the first two data words
C17_DecodersReadTopics ==
    chain.indexed =>
       \A i \in DOMAIN chain.logs :
           LET log == RawLog(chain.logs[i])
           IN /\ ReadsTopicsAndData(decode_batch_minted_event(log), log)
              /\ ReadsTopicsAndData(replay_decode_batch_minted_event(log), log)

\* the BatchMinted log a MintEvent row was stored for
LogOf(m) ==
    chain.logs[CHOOSE i \in DOMAIN chain.logs :
                  /\ chain.logs[i].tx_hash = m.tx_hash
                  /\ chain.logs[i].log_index = m.log_index]

LogTokenIds(log) == log.start .. (log.start + log.quantity - 1)

\* every MintEvent has the Token rows of its log, every Token row has the
\* MintEvent of its log
EventsAndTokensMatch ==
    /\ \A i \in DOMAIN mintEvents :
          \A t \in LogTokenIds(LogOf(mintEvents[i])) : tokens[t] # NoRow
    /\ \A t \in TokenIds :
          tokens[t] # NoRow =>
             \E i \in DOMAIN mintEvents : t \in LogTokenIds(LogOf(mintEvents[i]))

\* C18: a handler run commits, for a log, either nothing or the MintEvent row
\* together with all of the log's Token rows (status detected); no committed
\* state holds a MintEvent without its tokens or a token without its MintEvent
C18_EventAndTokensTogether ==
    /\ []EventsAndTokensMatch
    /\ [][\A r \in Requests :
            webhook_store_event(r) =>
               LET log == chain.logs[web[r].body[web[r].idx]]
               IN \/ mintEvents' = mintEvents /\ tokens' = tokens
                  \/ /\ Len(mintEvents') = Len(mintEvents) + 1
                     /\ SubSeq(mintEvents', 1, Len(mintEvents)) = mintEvents
                     /\ LogOf(mintEvents'[Len(mintEvents')]) = log
                     /\ \A t \in TokenIds :
                           IF t \in LogTokenIds(log)
                           THEN tokens[t] = NoRow /\ tokens'[t].status = DETECTED
                           ELSE tokens'[t] = tokens[t]]_vars

\* a log of two tokens stored whole, and a run rolled back after its MintEvent
\* had been flushed (its author resolves; a token of the log existed)
C18_Witness ==
    /\ \E i \in DOMAIN mintEvents :
          /\ LogOf(mintEvents[i]).quantity = 2
          /\ \A t \in LogTokenIds(LogOf(mintEvents[i])) : tokens[t].status = DETECTED
    /\ \E r \in Requests :
          /\ web[r].pc = "done"
          /\ web[r].resp = "500"
          /\ ResolveAuthor(chain.logs[web[r].body[web[r].idx]].author) # Null

\* a worker task that is in its polling loop or has yet to take its
\* cancellation
Running(task) == task.state \in {"running", "cancelling"}

\* C19: once shutdown has set the event, cancelled the worker tasks and
\* awaited them, no worker task is running, respawned ones included
C19_NoWorkerAfterShutdown ==
    sup.pc = "stopped" =>
       \A w \in Workers : \A i \in DOMAIN sup.tasks[w] : ~Running(sup.tasks[w][i])

FirstAnswer(responses) ==
    IF \A k \in 1..max_retries : responses[k] = "rpc_error" THEN max_retries + 1
    ELSE CHOOSE k \in 1..max_retries :
            /\ responses[k] # "rpc_error"
            /\ \A j \in 1..(k - 1) : responses[j] = "rpc_error"

\* C21: get_next_token_id makes at most 3 calls; transport errors are retried
\* and the value of the first call that succeeds is returned;
\* BlockchainConnectionError is raised after the third failure in a row; a
\* contract-call error raises ContractNotFoundError at once, so after exactly
\* one call when it is the first call's outcome
C21_BoundedRetry ==
    /\ \A responses \in RpcScripts :
          LET got == get_next_token_id(responses)
              k == FirstAnswer(responses)
          IN /\ got.calls >= 1 /\ got.calls <= 3
             /\ k > max_retries =>
                   got.raised = "BlockchainConnectionError" /\ got.calls = 3
             /\ (k <= max_retries /\ responses[k] = "value") =>
                   got.raised = Null /\ got.value = chain.next /\ got.calls = k
             /\ (k <= max_retries /\ responses[k] = "contract_error") =>
                   got.raised = "ContractNotFoundError" /\ got.calls = k
             /\ responses[1] = "contract_error" => got.calls = 1
    /\ gap.calls <= 3
    /\ gap.exc = "BlockchainConnectionError" => gap.calls = 3
    /\ (gap.status = "completed" \/ gap.pc = "run") => gap.N = chain.next \/ gap.N < chain.next

\* a repair run whose third call of nextTokenId() succeeded after two
\* transport errors and which went on to insert rows
C21_Witness ==
    /\ gap.calls = 3
    /\ gap.exc = Null
    /\ gap.status = "completed"
    /\ gap.recovered >= 1

\* the replay command run over the last log of the chain alone, decoded
ReplaysOneEvent(from_log) ==
    /\ recover_events_main(from_log, Latest)
    /\ from_log = Len(chain.logs)
    /\ ~replay_decode_batch_minted_event(RawLog(chain.logs[from_log])).error

\* storing an event into a store that holds none of its tokens creates its q
\* Token rows (detected) and returns (q, 0)
FirstStore(from_log, needs_author) ==
    LET event == chain.logs[from_log]
        ids == LogTokenIds(event)
    IN (/\ \A t \in ids : tokens[t] = NoRow
        /\ needs_author => ResolveAuthor(event.author) # Null) =>
          /\ \A t \in ids : tokens'[t].status = DETECTED
          /\ \A t \in TokenIds \ ids : tokens'[t] = tokens[t]
          /\ replay'.stored = event.quantity
          /\ replay'.skipped = 0

\* storing an event whose tokens are all in the store creates no row and
\* returns (0, q)
SecondStore(from_log) ==
    LET event == chain.logs[from_log]
        ids == LogTokenIds(event)
    IN (\A t \in ids : tokens[t] # NoRow) =>
          /\ tokens' = tokens
          /\ mintEvents' = mintEvents
          /\ replay'.stored = 0
          /\ replay'.skipped = event.quantity

GeneratingTasks(t) == {p \in Procs : imgTask[p][t].st = "generating"}
UploadingTasks(t) == {p \in Procs : upTask[p][t] = "run"}

\* C23: at no time do two worker tasks process the same token in generating,
\* or the same token in uploading; and a step that takes a token out of
\* generating is the final commit of the task that put it there (or the
\* orphan reset of a starting worker, which the lifecycle sets apart)
C23_ExclusiveLease ==
    /\ [](\A t \in TokenIds :
            /\ Cardinality(GeneratingTasks(t)) <= 1
            /\ Cardinality(UploadingTasks(t)) <= 1)
    /\ [][\A t \in TokenIds :
            (tokens[t].status = GENERATING /\ tokens'[t].status # GENERATING) =>
               \/ \E p \in GeneratingTasks(t) : imgTask'[p][t] = NoTask
               \/ \E p \in Procs : run_image_generation_worker(p)]_vars

\* the missing ids of the run whose insert meets a unique-key violation: the
\* contract calls for the id succeed, its author resolves, and the webhook
\* has inserted the id since the query
RacedIds(rpc_errors) ==
    {id \in SeqToSet(gap.missing_ids) :
        /\ id \notin rpc_errors
        /\ ResolveAuthor(tokenPromptAuthor(id)) # Null
        /\ tokens[id] # NoRow}

\* C24: when the insert of one missing id meets a unique-key violation, the
\* id is counted as a skipped duplicate and every other missing id of the run
\* (whose contract calls succeed and whose author resolves) is in the store
\* after the run
C24_DuplicateDoesNotUndoRun ==
    [][\A rpc_errors \in SUBSET TokenIds :
          (recover_missing_tokens(rpc_errors) /\ Cardinality(RacedIds(rpc_errors)) = 1) =>
             /\ gap'.skipped = 1
             /\ \A id \in SeqToSet(gap.missing_ids) \ RacedIds(rpc_errors) :
                   (id \notin rpc_errors /\ ResolveAuthor(tokenPromptAuthor(id)) # Null)
                      => tokens'[id] # NoRow]_vars

\* request r is done, not answered 500 itself, and re-delivered a push whose
\* earlier delivery was answered 500 after committing some of its logs
RedeliveredAfter500(r) ==
    /\ web[r].pc = "done"
    /\ web[r].resp # "500"
    /\ web[r].after # 0
    /\ web[web[r].after].resp = "500"
    /\ web[web[r].after].stored >= 1

\* the MintEvent rows stored for a log
EventRows(log) ==
    {i \in DOMAIN mintEvents : /\ mintEvents[i].tx_hash = log.tx_hash
                               /\ mintEvents[i].log_index = log.log_index}

\* C25: after the re-delivery of a push that had failed with 500 part-way,
\* every log of the push has exactly one MintEvent row and all of its Token
\* rows
C25_RedeliveryCompletes ==
    \A r \in Requests :
        RedeliveredAfter500(r) =>
           \A k \in DOMAIN web[r].body :
               LET log == chain.logs[web[r].body[k]]
               IN /\ Cardinality(EventRows(log)) = 1
                  /\ \A t \in LogTokenIds(log) : tokens[t] # NoRow

\* C26: a reveal batch that fails - gas estimation or submission failure,
\* confirmation timeout, receipt status 0 - leaves every Token row as it was,
\* the tokens of the batch in ready, and the RevealTransaction table as it
\* was; the rollback releases the batch
C26_FailedBatchRolledBack ==
    [][\A p \in Procs : \A o \in {"transient", "timeout", "revert"} :
          process_reveal_batch(p, o) =>
             /\ tokens' = tokens
             /\ revealTxs' = revealTxs
             /\ \A t \in SeqToSet(revBatch[p]) :
                   /\ tokens'[t].status = READY
                   /\ locks[t] = RevOwner(p)
                   /\ locks'[t] = NoLock]_vars

\* a batch of two whose transaction reverted and a batch whose wait timed
\* out, both rolled back: the tokens are ready, no row was written
C26_Witness ==
    /\ revealTxs = <<>>
    /\ \E i \in DOMAIN chain.txs : \E j \in DOMAIN chain.txs :
          /\ chain.txs[i].status = "reverted"
          /\ Len(chain.txs[i].token_ids) = 2
          /\ chain.txs[j].status = "pending"
          /\ \A t \in SeqToSet(chain.txs[i].token_ids) \cup SeqToSet(chain.txs[j].token_ids) :
                tokens[t].status = READY /\ tokens[t].tx = NoTx /\ locks[t] = NoLock

\* C27: start-up reconciliation of the pending reveal transactions.  A row
\* whose receipt has status 1 becomes confirmed and each member token that is
\* still ready when the row is handled becomes revealed with the row's hash;
\* with status 0 the row becomes failed; with no receipt, or a failed query,
\* the row stays as it was.  No other row and no other token changes.
ReceiptOutcome(i, rpc_errors) ==
    LET tx == revealTxs[i]
    IN IF tx.status # "pending" \/ tx.tx_hash = NoTx THEN "not_selected"
       ELSE IF i \in rpc_errors THEN "rpc_error"
       ELSE IF chain.txs[tx.tx_hash[2]].status = "pending" THEN "not_found"
       ELSE IF chain.txs[tx.tx_hash[2]].status = "confirmed" THEN "status_1"
       ELSE "status_0"

ConfirmedRowsOf(t, rpc_errors) ==
    {i \in DOMAIN revealTxs : /\ ReceiptOutcome(i, rpc_errors) = "status_1"
                              /\ t \in SeqToSet(revealTxs[i].token_ids)}

Oldest(rows) == CHOOSE i \in rows : \A j \in rows : i <= j

C27_Reconciliation ==
    [][\A rpc_errors \in SUBSET (1..MaxTx) :
          recover_orphaned_transactions(1, rpc_errors) =>
             /\ \A i \in DOMAIN revealTxs :
                   revealTxs'[i] =
                      [revealTxs[i] EXCEPT !.status =
                          CASE ReceiptOutcome(i, rpc_errors) = "status_1" -> "confirmed"
                            [] ReceiptOutcome(i, rpc_errors) = "status_0" -> "failed"
                            [] OTHER -> @]
             /\ \A t \in TokenIds :
                   IF tokens[t].status = READY /\ ConfirmedRowsOf(t, rpc_errors) # {}
                   THEN tokens'[t] =
                           [tokens[t] EXCEPT
                               !.status = REVEALED,
                               !.tx = revealTxs[Oldest(ConfirmedRowsOf(t, rpc_errors))].tx_hash]
                   ELSE tokens'[t] = tokens[t]]_vars

\* after the recovery: the first row confirmed, token 1 revealed with its
\* hash, the failed member token 2 as it was, the reverted second row failed
\* and its ready member token 3 still ready
C27_Witness ==
    /\ revPc[1] = "idle"
    /\ revealTxs[1].status = "confirmed"
    /\ revealTxs[2].status = "failed"
    /\ tokens[1].status = REVEALED /\ tokens[1].tx = <<"tx", 1>>
    /\ tokens[2].status = FAILED /\ tokens[2].tx = NoTx
    /\ tokens[3].status = READY
    /\ chain.txs[2].status = "reverted"

\* C28: a reveal transaction that is confirmed on the chain, whether the
\* keeper saw its receipt or stopped waiting for it, leads to its tokens
\* being revealed in the store
ConfirmedOnChain(i) == i \in DOMAIN chain.txs /\ chain.txs[i].status = "confirmed"

RevealedInStore(i) ==
    /\ i \in DOMAIN chain.txs
    /\ \A t \in SeqToSet(chain.txs[i].token_ids) : tokens[t].status = REVEALED

C28_OrphanedTxReconciled ==
    \A i \in 1..MaxTx : ConfirmedOnChain(i) ~> RevealedInStore(i)

\* C29: the start-up orphan reset of the image worker sets every generating
\* token to detected and changes nothing else: a token in any other state
\* keeps its status, and no token's image_url, cids, attempts, error or
\* transaction hash changes; no other table changes
C29_OrphanResetFrame ==
    [][\A p \in Procs :
          run_image_generation_worker(p) =>
             /\ \A t \in TokenIds :
                   /\ tokens'[t].status =
                         IF tokens[t].status = GENERATING THEN DETECTED
                         ELSE tokens[t].status
                   /\ tokens'[t].image_url = tokens[t].image_url
                   /\ tokens'[t].image_cid = tokens[t].image_cid
                   /\ tokens'[t].metadata_cid = tokens[t].metadata_cid
                   /\ tokens'[t].attempts = tokens[t].attempts
                   /\ tokens'[t].error = tokens[t].error
                   /\ tokens'[t].tx = tokens[t].tx
                   /\ tokens'[t].author = tokens[t].author
             /\ UNCHANGED <<authors, mintEvents, revealTxs>>]_vars

\* after the reset: a token that was generating on its second attempt is
\* detected with its counter kept, next to a revealed token with its hash and
\* a failed token
C29_Witness ==
    /\ imgPc[1] = "poll"
    /\ tokens[1].status = DETECTED /\ tokens[1].attempts = 1
    /\ tokens[2].status = REVEALED /\ tokens[2].tx = <<"tx", 0>>
    /\ tokens[3].status = FAILED

\* C30 (as stated): a token goes from generating back to detected only in the
\* start-up orphan reset
BackToDetected(t) == tokens[t].status = GENERATING /\ tokens'[t].status = DETECTED

C31_GeneratingOnlyWhileProcessed ==
    \A t \in TokenIds :
       tokens[t].status = GENERATING =>
          \E p \in Procs : imgTask[p][t].st = "generating"

\* C32: within one claimed batch, a task that ends without advancing its
\* token (an exception of any class, a rollback, a transition to failed)
\* leaves every other token's row as committed and every other task of the
\* batch as it was, still running
ImageTaskFails(p, t) ==
    /\ \E o \in HandlerOutcomes : image_process_single_token(p, t, o)
    /\ tokens'[t].status # UPLOADING

UploadTaskFails(p, t) ==
    /\ \E o \in UploadOutcomes \cup {"unexpected"} : ipfs_process_single_token(p, t, o)
    /\ tokens'[t].status # READY

C32_BatchIsolation ==
    [][\A p \in Procs : \A t \in TokenIds :
          ImageTaskFails(p, t) \/ UploadTaskFails(p, t) =>
             \A u \in TokenIds \ {t} :
                /\ tokens'[u] = tokens[u]
                /\ imgTask'[p][u] = imgTask[p][u]
                /\ upTask'[p][u] = upTask[p][u]]_vars

\* the first batch of process 1, the only one that has started: token 1 was
\* marked failed, token 2 advanced to uploading on its first attempt
C32_Witness ==
    /\ imgPc = [p \in Procs |-> IF p = 1 THEN "poll" ELSE "boot"]
    /\ tokens[1].status = FAILED
    /\ tokens[2].status = UPLOADING
    /\ tokens[2].attempts = 0
    /\ tokens[2].image_url # NoUrl

\* C33 (as stated): every token has both cids or neither, both whenever it is
\* ready, and a cid that is set never changes
HasRow(t) == tokens[t] # NoRow

CidsKept(t) ==
    /\ tokens[t].image_cid # NoCid => tokens'[t].image_cid = tokens[t].image_cid
    /\ tokens[t].metadata_cid # NoCid => tokens'[t].metadata_cid = tokens[t].metadata_cid

C34_HashOnlyOnRevealed ==
    /\ [](\A t \in TokenIds :
             HasRow(t) /\ tokens[t].tx # NoTx => tokens[t].status = REVEALED)
    /\ [][\A t \in TokenIds :
             (HasRow(t) /\ tokens'[t].tx # tokens[t].tx) =>
                tokens[t].status = READY /\ tokens'[t].status = REVEALED]_vars

\* C35: last_processed_block never decreases over any sequence of log-replay
\* runs, whatever --from-block and --to-block the runs are given: once a
\* checkpoint is stored, every run leaves one at least as high
C35_WatermarkMonotonic ==
    [][replay.last_processed_block # NoBlock =>
          /\ replay'.last_processed_block # NoBlock
          /\ replay'.last_processed_block[1] >= replay.last_processed_block[1]]_vars

\* the gap-repair attempt of lifespan is over: completed, raised or skipped
RecoveryFinished == gap.pc = "idle" /\ gap.status \in {"completed", "raised", "skipped"}

WorkersSpawned == \A w \in Workers : sup.tasks[w] # <<>>

LiveImageTask(t) == \E q \in Procs : imgTask[q][t].st = "generating"

\* C37: the start-up orphan reset never changes the status of a token that a
\* live image-worker task, of this process or of another, is processing
C37_OrphanResetSparesLiveTasks ==
    [][\A p \in Procs :
          run_image_generation_worker(p) =>
             \A t \in TokenIds : LiveImageTask(t) => tokens'[t].status = tokens[t].status]_vars

\* the token ids of the log request r is about to store
PushedTokenIds(r) ==
    EventTokenIds(decode_batch_minted_event(RawLog(chain.logs[web[r].body[web[r].idx]])))

\* C38: a webhook push for a mint whose token rows gap repair has already
\* inserted is handled without a storage error (no 500 response) and leaves
\* one Token row for every token id of the batch
C38_PushAfterGapRepair ==
    [][\A r \in Requests :
          (/\ webhook_store_event(r)
           /\ gap.status = "completed"
           /\ gap.recovered >= 1
           /\ \A t \in PushedTokenIds(r) : tokens[t] # NoRow) =>
             /\ web'[r].resp # "500"
             /\ \A t \in PushedTokenIds(r) : tokens'[t] # NoRow]_vars

\* the RevealTransaction rows that record hash h as confirmed and list t
ConfirmedRowsListing(t, h) ==
    {i \in DOMAIN revealTxs : /\ revealTxs[i].tx_hash = h
                              /\ revealTxs[i].status = "confirmed"
                              /\ t \in SeqToSet(revealTxs[i].token_ids)}

\* C39: every token with a non-null reveal_tx_hash h is listed in the
\* token_ids of a RevealTransaction row whose tx_hash is h and whose status is
\* confirmed
C39_HashHasConfirmedRow ==
    \A t \in TokenIds :
       (tokens[t] # NoRow /\ tokens[t].tx # NoTx) => ConfirmedRowsListing(t, tokens[t].tx) # {}

\* a batch of two tokens was revealed by one transaction
C39_Witness ==
    \E t, u \in TokenIds :
       /\ t # u
       /\ tokens[t] # NoRow /\ tokens[u] # NoRow
       /\ tokens[t].tx # NoTx
       /\ tokens[u].tx = tokens[t].tx
       /\ ConfirmedRowsListing(u, tokens[t].tx) # {}

\* the tasks of worker w that have been created and have not ended
LiveTasks(w) == {i \in DOMAIN sup.tasks[w] : ~Done(sup.tasks[w][i])}

\* C40: at any time at most one task of each stage worker is running within
\* one process, through any sequence of crashes, respawns and shutdown
C40_OneTaskPerWorker == \A w \in Workers : Cardinality(LiveTasks(w)) <= 1

\* shutdown has completed around a respawned image worker that is in its
\* loop, the only live task of its worker
C40_Witness ==
    /\ sup.pc = "stopped"
    /\ Len(sup.tasks["image_generation"]) = 2
    /\ sup.tasks["image_generation"][1].state = "exception"
    /\ sup.tasks["image_generation"][2].state = "running"
    /\ LiveTasks("image_generation") = {2}

====
